---- MODULE Spec2Model ----
(***************************************************************************)
(* RyteAI: the agent instruction pipeline.                                 *)
(*                                                                         *)
(*  - the credit ledger (supabase migration: profiles, consume_credit,     *)
(*    refund_credit), as PostgreSQL transactions over one profiles table;  *)
(*  - the agent chat panel (AgentChat.tsx handleSend / handleCancel) and   *)
(*    the streaming endpoint it talks to;                                  *)
(*  - the canvas editor (CanvasEditor: single-shot patches, highlight      *)
(*    timers, save paths, stripAiResponseMarks).                           *)
(*                                                                         *)
(* Each subsystem has its own specification; the variables of the other    *)
(* subsystems stay at their initial values under it.                       *)
(***************************************************************************)
EXTENDS Integers, Sequences, FiniteSets, TLC

(***************************************************************************)
(* Bounds of the model.                                                    *)
(***************************************************************************)
MaxCredits == 2
MaxTxn == 3
MaxAnyTxn == 2
MaxRequests == 2
MaxSteps == 1
MaxTrailing == 1
MaxWire == 8
MaxKids == 2
MaxDocLen == 3
MaxEdits == 1
MaxCalls == 1
MaxUserSaves == 1
MaxPayload == 4
MaxPatches == 2
MaxLines == 3
MaxSends == 3
MaxTimers == 4

VARIABLES
    \* ---- credit ledger (public.profiles and the RPC transactions) ----
    profiles,      \* the user_ids that have a row in public.profiles
    credits,       \* profiles.credits, per user_id
    initCredits,   \* the balance B the behaviour started with (history)
    rowLock,       \* per user_id: the transaction holding the row lock, 0 if none
    txPc,          \* per transaction: "idle", "calling", "selected", "done"
    txKind,        \* "consume" or "refund"
    txUser,        \* p_user_id
    txAmount,      \* p_amount
    txCur,         \* v_current_credits read by SELECT ... FOR UPDATE
    txFound,       \* whether that SELECT found a row (v_current_credits not NULL)
    txResult,      \* "none", "ok", "not_found", "insufficient"
    txWaited,      \* the call was issued while another transaction held the row
    \* ---- agent chat panel (AgentChat.tsx) ----
    isProcessing,  \* useState isProcessing
    chatPc,        \* where handleSend is suspended: "idle", "token", "fetch", "reading"
    abortCtl,      \* abortControllerRef.current is a controller (not null)
    aborted,       \* that controller's signal is aborted
    curReq,        \* the submission handleSend is working on (0: none yet)
    buffer,        \* let buffer: the bytes of the unfinished line
    msgContent,    \* the assistant message of the submission: content
    msgStreaming,  \*   isStreaming
    toolCalls,     \*   const toolCalls: ToolCall[]
    finalResponse, \* let finalResponse
    acted,         \* the events a case of the switch has run for (history)
    dropped,       \* lines left unprocessed when the loop stopped (history)
    reloads,       \* calls of onCanvasModified for the submission (history)
    refreshes,     \* calls of refreshCredits for the submission (history)
    outcome,       \* how the submission ended (history)
    cancelAsked,   \* handleCancel ran while the submission was in progress (history)
    \* ---- the streaming endpoint and the connection ----
    reqSent,       \* the POST has left the client
    httpStatus,    \* the response status, 0 while there is none
    srvState,      \* the orchestrator's state
    srvSteps,      \* tool steps taken
    reserved,      \* consume_credit succeeded for it
    refunds,       \* refund_credit calls issued for it
    modelCalls,    \* model invocations
    trailing,      \* events emitted after the terminal event
    connOpen,      \* the client still holds the connection
    srvClosed,     \* the server has closed the stream
    wire           \* bytes sent and not yet read

ledgerVars == <<profiles, credits, initCredits, rowLock, txPc, txKind, txUser,
                txAmount, txCur, txFound, txResult, txWaited>>

chatVars == <<isProcessing, chatPc, abortCtl, aborted, curReq, buffer, msgContent,
              msgStreaming, toolCalls, finalResponse, acted, dropped, reloads,
              refreshes, outcome, cancelAsked>>

srvVars == <<reqSent, httpStatus, srvState, srvSteps, reserved, refunds, modelCalls,
             trailing, connOpen, srvClosed, wire>>

VARIABLES
    \* ---- stripAiResponseMarks applied to a document tree ----
    tree,          \* the JSONContent handed to stripAiResponseMarks
    once,          \* stripAiResponseMarks(tree), once computed
    twice,         \* stripAiResponseMarks(once), once computed
    stripPc        \* "input", "once", "twice"

stripVars == <<tree, once, twice, stripPc>>

VARIABLES
    \* ---- canvas editor (CanvasEditor) ----
    edSrc,         \* the revision of the component that is mounted
    doc,           \* the editor's document: its characters, each with its highlight
    canvasName,    \* useState canvasName
    isImproving,   \* useState isImproving
    impFrom,       \* from, captured by handleImproveText
    impTo,         \* to, captured by handleImproveText
    impMutated,    \* the text changed since that capture (history)
    isProcessingInstruction, \* useState isProcessingInstruction
    insFrom,       \* lineStart, captured for handleAgentInstruction
    insTo,         \* lineEnd
    insMutated,    \* the text changed since that capture (history)
    sinceLLM,      \* Date.now() - lastLLMCallRef.current, up to the interval
    contentTimer,  \* contentDebounceRef: time left, NoTimer if not set
    titleTimer,    \* titleDebounceRef: time left, NoTimer if not set
    titleVal,      \* the value the title timer's callback holds
    markTimers,    \* pending setMark timers: from, to, time left
    unmarkTimers,  \* pending fade timers: from, to, time left
    inFlight,      \* updateCanvas calls awaiting their response
    lastPatch,     \* "none"; "fresh" or "stale": the latest patch applied (history)
    lastCall,      \* "none", or how the latest model call ended (history)
    edits,         \* edits the user made
    calls,         \* model calls issued
    userSaves      \* title changes and manual saves made

editorVars == <<edSrc, doc, canvasName, isImproving, impFrom, impTo,
                impMutated, isProcessingInstruction, insFrom, insTo, insMutated,
                sinceLLM, contentTimer, titleTimer, titleVal, markTimers, unmarkTimers,
                inFlight, lastPatch, lastCall, edits, calls, userSaves>>

VARIABLES
    \* ---- insertMarkdownContent applied to one payload ----
    payload,       \* content: the text the model returned
    before,        \* the document the payload is applied to
    pFrom,         \* from
    pTo,           \* to
    pCleaned,      \* cleanMarkdown(content), once computed
    after,         \* the document after the insertion, once made
    patchPc        \* "input", "cleaned", "applied"

patchVars == <<payload, before, pFrom, pTo, pCleaned, after, patchPc>>

VARIABLES
    \* ---- the canvas page and the stored canvases ----
    canvasId,                 \* params.id, the canvas of the route
    currentCanvas,            \* the id of currentCanvas, NoCanvas for null
    isFetchingCanvas,         \* isFetchingCanvas.current
    hasFetchedCurrentCanvas,  \* hasFetchedCurrentCanvas.current
    fetching,                 \* the canvas of the getCanvas call of loadCanvas in flight
    stored,                   \* the content of each canvas in the store
    committed,                \* a tool call of the request has changed the stored canvas
    reloadPc                  \* handleCanvasModified: "none", "done" once its getCanvas resolved

pageVars == <<canvasId, currentCanvas, isFetchingCanvas, hasFetchedCurrentCanvas,
              fetching, stored, committed, reloadPc>>

VARIABLES
    \* ---- the runs of handleSend of one chat panel ----
    sendPc,              \* where each run of handleSend is: "idle" (not called),
                         \* "token", "fetch", "reading", "done"
    abortControllerRef,  \* the run whose controller abortControllerRef.current is, 0 for null
    signalled            \* the runs whose controller has been aborted

panelVars == <<sendPc, abortControllerRef, signalled>>

VARIABLES
    \* ---- the debounce timers of one CanvasEditor ----
    timers,              \* the timers set and not yet fired or cleared: kind, id, rem
    contentDebounceRef,  \* contentDebounceRef.current: the id setTimeout gave, 0 for null
    titleDebounceRef,    \* titleDebounceRef.current
    nextTimer,           \* the id the next setTimeout gives
    mounted,             \* the editor component is mounted
    sinceUpdate,         \* time since the last editor update
    sinceTitle,          \* time since the last change of the title
    fired                \* the last timer whose callback ran, and what it found

debounceVars == <<timers, contentDebounceRef, titleDebounceRef, nextTimer, mounted,
                  sinceUpdate, sinceTitle, fired>>

canvasVars == <<stripVars, editorVars, patchVars, pageVars, panelVars, debounceVars>>

vars == <<ledgerVars, chatVars, srvVars, canvasVars>>

(***************************************************************************)
(* The credit ledger.                                                      *)
(***************************************************************************)
UserIds == {"u1", "u2"}
Txn == 1..MaxTxn
NoTxn == 0

\* The amounts the backend passes (the default p_amount, 1 per AI call) and the
\* amounts an INTEGER parameter admits beyond it.
UnitAmounts == {1}
AnyAmounts == {-1, 1, 2}

\* handle_new_user: a profile is created with its credits, before any RPC runs.
InitLedger ==
    /\ profiles = {"u1"}
    /\ initCredits \in 0..MaxCredits
    /\ credits = [u \in UserIds |-> IF u = "u1" THEN initCredits ELSE 0]
    /\ rowLock = [u \in UserIds |-> NoTxn]
    /\ txPc = [t \in Txn |-> "idle"]
    /\ txKind = [t \in Txn |-> "consume"]
    /\ txUser = [t \in Txn |-> "u1"]
    /\ txAmount = [t \in Txn |-> 1]
    /\ txCur = [t \in Txn |-> 0]
    /\ txFound = [t \in Txn |-> FALSE]
    /\ txResult = [t \in Txn |-> "none"]
    /\ txWaited = [t \in Txn |-> FALSE]

\* A faulty variant of RowLockFree: SELECT without FOR UPDATE never waits for the row.
RowLockFreeNoLock(u) == TRUE

\* SELECT ... FOR UPDATE and UPDATE wait until no other transaction holds the row.
RowLockFree(u) == rowLock[u] = NoTxn

\* A faulty variant of UpdateWaits: the UPDATE of refund_credit goes ahead on a
\* row another transaction has locked.
UpdateWaitsNever(u) == TRUE

\* UPDATE public.profiles ... WHERE user_id = p_user_id waits while another
\* transaction holds the row FOR UPDATE.
UpdateWaits(u) == RowLockFree(u)

\* IF v_current_credits IS NULL
ProfileFound(u) == u \in profiles

\* A faulty variant of InsufficientCredits: the check is off by one (<=).
InsufficientCreditsOffByOne(cur, amt) == cur <= amt

\* IF v_current_credits < p_amount
InsufficientCredits(cur, amt) == cur < amt

\* v_new_credits := v_current_credits - p_amount
DeductCredits(cur, amt) == cur - amt

\* SET credits = credits + p_amount
AddCredits(cur, amt) == cur + amt

\* The JSONB consume_credit returns, by the branch taken.
ConsumeResult(found, cur, amt) ==
    IF ~found THEN "not_found"
    ELSE IF InsufficientCredits(cur, amt) THEN "insufficient"
    ELSE "ok"

\* A faulty variant of ConsumeWrites: the UPDATE runs before the two checks.
ConsumeWritesAlways(found, cur, amt) == found

\* consume_credit reaches its UPDATE only past both early returns.
ConsumeWrites(found, cur, amt) == ConsumeResult(found, cur, amt) = "ok"

\* The RPC is issued: the function's first statement is pending. Transactions
\* are interchangeable, so they are started in index order.
LedgerCall(t, k, u, a) ==
    /\ txPc[t] = "idle"
    /\ \A s \in Txn : s < t => txPc[s] # "idle"
    /\ txPc' = [txPc EXCEPT ![t] = "calling"]
    /\ txKind' = [txKind EXCEPT ![t] = k]
    /\ txUser' = [txUser EXCEPT ![t] = u]
    /\ txAmount' = [txAmount EXCEPT ![t] = a]
    /\ txWaited' = [txWaited EXCEPT ![t] = rowLock[u] # NoTxn]
    /\ UNCHANGED <<profiles, credits, initCredits, rowLock, txCur, txFound, txResult>>

\* consume_credit: SELECT credits INTO v_current_credits ... FOR UPDATE
ConsumeSelect(t) ==
    /\ txPc[t] = "calling"
    /\ txKind[t] = "consume"
    /\ RowLockFree(txUser[t])
    /\ txPc' = [txPc EXCEPT ![t] = "selected"]
    /\ txFound' = [txFound EXCEPT ![t] = ProfileFound(txUser[t])]
    /\ txCur' = [txCur EXCEPT ![t] = IF ProfileFound(txUser[t]) THEN credits[txUser[t]] ELSE 0]
    /\ rowLock' = IF ProfileFound(txUser[t]) /\ rowLock[txUser[t]] = NoTxn
                  THEN [rowLock EXCEPT ![txUser[t]] = t]
                  ELSE rowLock
    /\ UNCHANGED <<profiles, credits, initCredits, txKind, txUser, txAmount, txResult, txWaited>>

\* consume_credit: the two checks, the UPDATE, RETURN; the transaction commits
\* and releases the row.
ConsumeFinish(t) ==
    /\ txPc[t] = "selected"
    /\ txKind[t] = "consume"
    /\ txResult' = [txResult EXCEPT ![t] = ConsumeResult(txFound[t], txCur[t], txAmount[t])]
    /\ credits' = IF ConsumeWrites(txFound[t], txCur[t], txAmount[t])
                  THEN [credits EXCEPT ![txUser[t]] = DeductCredits(txCur[t], txAmount[t])]
                  ELSE credits
    /\ rowLock' = [u \in UserIds |-> IF rowLock[u] = t THEN NoTxn ELSE rowLock[u]]
    /\ txPc' = [txPc EXCEPT ![t] = "done"]
    /\ UNCHANGED <<profiles, initCredits, txKind, txUser, txAmount, txCur, txFound, txWaited>>

\* refund_credit: UPDATE ... SET credits = credits + p_amount ... RETURNING,
\* one statement; it waits for the row like any UPDATE.
RefundUpdate(t) ==
    /\ txPc[t] = "calling"
    /\ txKind[t] = "refund"
    /\ UpdateWaits(txUser[t])
    /\ txFound' = [txFound EXCEPT ![t] = ProfileFound(txUser[t])]
    /\ credits' = IF ProfileFound(txUser[t])
                  THEN [credits EXCEPT ![txUser[t]] = AddCredits(credits[txUser[t]], txAmount[t])]
                  ELSE credits
    /\ txResult' = [txResult EXCEPT ![t] = IF ProfileFound(txUser[t]) THEN "ok" ELSE "not_found"]
    /\ txPc' = [txPc EXCEPT ![t] = "done"]
    /\ UNCHANGED <<profiles, initCredits, rowLock, txKind, txUser, txAmount, txCur, txWaited>>

(***************************************************************************)
(* The agent chat panel: the pure parts of handleSend.                     *)
(***************************************************************************)
ToolNames == {"a", "b"}

\* The bytes of the stream, one symbol each: the 'data: ' prefix, a JSON
\* payload (named by its event), a newline, a blank, a payload that is no JSON.
DataPrefix == "d"
Newline == "n"
Blank == " "
BadJson == "x"
EventCodes == {"S", "Ta", "Tb", "Ra", "Rb", "Xa", "Xb", "P", "C", "E"}
NoEvent == "none"

\* event.event and event.tool_name of a payload
EventKind(ev) ==
    CASE ev = "S" -> "started"
      [] ev \in {"Ta", "Tb"} -> "tool_call"
      [] ev \in {"Ra", "Rb", "Xa", "Xb"} -> "tool_result"
      [] ev = "P" -> "response"
      [] ev = "C" -> "completed"
      [] ev = "E" -> "error"
      [] OTHER -> "unknown"
EventTool(ev) == IF ev \in {"Ta", "Ra", "Xa"} THEN "a" ELSE "b"

\* typeof event.result === 'string' ? event.result : JSON.stringify(event.result);
\* "Xa" and "Xb" are results that are an object (not found, an error).
EventResult(ev) == IF ev \in {"Xa", "Xb"} THEN "json" ELSE "text"

\* buffer.split('\n')
RECURSIVE SplitLines(_)
SplitLines(b) ==
    IF \A i \in 1..Len(b) : b[i] # Newline
    THEN <<b>>
    ELSE LET i == CHOOSE j \in 1..Len(b) :
                      b[j] = Newline /\ \A k \in 1..(j - 1) : b[k] # Newline
         IN <<SubSeq(b, 1, i - 1)>> \o SplitLines(SubSeq(b, i + 1, Len(b)))

\* line.trim()
RECURSIVE Trim(_)
Trim(l) ==
    IF l = <<>> THEN l
    ELSE IF l[1] = Blank THEN Trim(Tail(l))
    ELSE IF l[Len(l)] = Blank THEN Trim(SubSeq(l, 1, Len(l) - 1))
    ELSE l

\* parseSSELine: null unless the line starts with 'data: ' and the rest parses.
parseSSELine(l) ==
    IF Len(l) >= 1 /\ l[1] = DataPrefix
    THEN IF Len(l) = 2 /\ l[2] \in EventCodes THEN l[2] ELSE NoEvent
    ELSE NoEvent

\* A faulty variant of FindRunning: the latest running record of the name.
FindRunningLast(tcs, name) ==
    LET hits == {i \in 1..Len(tcs) : tcs[i].name = name /\ tcs[i].status = "running"}
    IN IF hits = {} THEN 0 ELSE CHOOSE i \in hits : \A j \in hits : i >= j

\* toolCalls.findIndex(tc => tc.name === event.tool_name && tc.status === 'running')
FindRunning(tcs, name) ==
    LET hits == {i \in 1..Len(tcs) : tcs[i].name = name /\ tcs[i].status = "running"}
    IN IF hits = {} THEN 0 ELSE CHOOSE i \in hits : \A j \in hits : i <= j

\* A faulty variant of InvokesReload: the error case reloads and refreshes too.
InvokesReloadOnError(kind) == kind \in {"completed", "error"}

\* onCanvasModified(); refreshCredits(); in the case 'completed' only
InvokesReload(kind) == kind = "completed"

\* A faulty variant of SetsStreamComplete: a tool result ends the stream too.
SetsStreamCompleteOnResult(kind) == kind \in {"completed", "error", "tool_result"}

\* streamComplete = true: in the cases 'completed' and 'error' only
SetsStreamComplete(kind) == kind \in {"completed", "error"}

\* One case of the switch, on the locals and the assistant message.
HandleEvent(cs, ev) ==
    LET k == EventKind(ev)
        c1 == [cs EXCEPT !.acted = Append(cs.acted, ev),
                         !.complete = SetsStreamComplete(k),
                         !.reloads = IF InvokesReload(k) THEN @ + 1 ELSE @,
                         !.refreshes = IF InvokesReload(k) THEN @ + 1 ELSE @]
    IN CASE k = "started" -> [c1 EXCEPT !.content = "processing"]
         [] k = "tool_call" ->
              [c1 EXCEPT !.toolCalls =
                  Append(cs.toolCalls,
                         [name |-> EventTool(ev), status |-> "running", result |-> ""])]
         [] k = "tool_result" ->
              LET i == FindRunning(cs.toolCalls, EventTool(ev))
              IN IF i = 0 THEN c1
                 ELSE [c1 EXCEPT !.toolCalls[i].status = "completed",
                                 !.toolCalls[i].result = EventResult(ev)]
         [] k = "response" ->
              [c1 EXCEPT !.finalResponse = "response", !.content = "response"]
         [] k = "completed" ->
              [c1 EXCEPT !.content = IF cs.finalResponse # "" THEN cs.finalResponse
                                     ELSE "completed",
                         !.streaming = FALSE,
                         !.outcome = "completed"]
         [] k = "error" ->
              [c1 EXCEPT !.content = "error",
                         !.streaming = FALSE,
                         !.outcome = "error_event"]
         [] OTHER -> cs

\* A faulty variant of Remainder: the unfinished line is thrown away.
RemainderDropped(lines) == <<>>

\* buffer = lines.pop() || '': what follows the last newline is kept
Remainder(lines) == lines[Len(lines)]

\* A faulty variant of BreaksLineLoop: the for loop runs on after a terminal event.
BreaksLineLoopNever(complete) == FALSE

\* if (streamComplete) break;
BreaksLineLoop(complete) == complete

EventLines(lines, from) ==
    Cardinality({j \in from..Len(lines) : parseSSELine(Trim(lines[j])) # NoEvent})

\* for (const line of lines) { ... }
RECURSIVE ProcessLines(_, _, _)
ProcessLines(lines, i, cs) ==
    IF i > Len(lines) THEN cs
    ELSE LET ev == parseSSELine(Trim(lines[i]))
         IN IF Trim(lines[i]) = <<>> \/ ev = NoEvent
            THEN ProcessLines(lines, i + 1, cs)
            ELSE LET c2 == HandleEvent(cs, ev)
                 IN IF BreaksLineLoop(c2.complete)
                    THEN [c2 EXCEPT !.dropped = EventLines(lines, i + 1)]
                    ELSE ProcessLines(lines, i + 1, c2)

\* A faulty variant of ResponseOk: the status of the response is not looked at.
ResponseOkAlways(status) == TRUE

\* response.ok
ResponseOk(status) == status >= 200 /\ status <= 299

InitChat ==
    /\ isProcessing = FALSE
    /\ chatPc = "idle"
    /\ abortCtl = FALSE
    /\ aborted = FALSE
    /\ curReq = 0
    /\ buffer = <<>>
    /\ msgContent = ""
    /\ msgStreaming = FALSE
    /\ toolCalls = <<>>
    /\ finalResponse = ""
    /\ acted = <<>>
    /\ dropped = 0
    /\ reloads = 0
    /\ refreshes = 0
    /\ outcome = "none"
    /\ cancelAsked = FALSE

InitSrv ==
    /\ reqSent = FALSE
    /\ httpStatus = 0
    /\ srvState = "Idle"
    /\ srvSteps = 0
    /\ reserved = FALSE
    /\ refunds = 0
    /\ modelCalls = 0
    /\ trailing = 0
    /\ connOpen = FALSE
    /\ srvClosed = FALSE
    /\ wire = <<>>

(***************************************************************************)
(* AgentChat.tsx: handleSend and handleCancel, one action per run between  *)
(* two awaits.                                                             *)
(***************************************************************************)
\* finally { setIsProcessing(false); abortControllerRef.current = null; }
Finally ==
    /\ isProcessing' = FALSE
    /\ abortCtl' = FALSE
    /\ chatPc' = "idle"

\* catch (error), other than an AbortError
CatchError ==
    /\ msgContent' = "error"
    /\ msgStreaming' = FALSE
    /\ outcome' = "error"
    /\ Finally

\* The endpoint has finished with the previous request. The panel's next
\* submission is modelled from there; calls that overlap on the ledger are the
\* subject of SpecLedger.
EndpointQuiet == ~(reqSent /\ httpStatus = 0) /\ srvState \notin {"Looping", "Tooling", "Responding"}

\* handleSend up to await getAccessToken()
Send ==
    /\ chatPc = "idle"
    /\ ~isProcessing
    /\ curReq < MaxRequests
    /\ curReq' = curReq + 1
    /\ isProcessing' = TRUE
    /\ msgContent' = ""
    /\ msgStreaming' = TRUE
    /\ toolCalls' = <<>>
    /\ finalResponse' = ""
    /\ buffer' = <<>>
    /\ acted' = <<>>
    /\ dropped' = 0
    /\ reloads' = 0
    /\ refreshes' = 0
    /\ outcome' = "none"
    /\ cancelAsked' = FALSE
    /\ chatPc' = "token"
    /\ UNCHANGED <<abortCtl, aborted>>
    /\ EndpointQuiet
    /\ reqSent' = FALSE
    /\ httpStatus' = 0
    /\ srvState' = "Idle"
    /\ srvSteps' = 0
    /\ reserved' = FALSE
    /\ refunds' = 0
    /\ modelCalls' = 0
    /\ trailing' = 0
    /\ connOpen' = FALSE
    /\ srvClosed' = FALSE
    /\ wire' = <<>>
    /\ UNCHANGED <<ledgerVars, canvasVars>>

\* getAccessToken() resolves with a token: the controller is created and the
\* POST leaves.
TokenResolved ==
    /\ chatPc = "token"
    /\ abortCtl' = TRUE
    /\ aborted' = FALSE
    /\ reqSent' = TRUE
    /\ connOpen' = TRUE
    /\ chatPc' = "fetch"
    /\ UNCHANGED <<isProcessing, curReq, buffer, msgContent, msgStreaming, toolCalls,
                   finalResponse, acted, dropped, reloads, refreshes, outcome, cancelAsked>>
    /\ UNCHANGED <<httpStatus, srvState, srvSteps, reserved, refunds, modelCalls,
                   trailing, srvClosed, wire>>
    /\ UNCHANGED <<ledgerVars, canvasVars>>

\* getAccessToken() resolves with null: throw new Error('Not authenticated')
TokenMissing ==
    /\ chatPc = "token"
    /\ CatchError
    /\ UNCHANGED <<aborted, curReq, buffer, toolCalls, finalResponse, acted, dropped,
                   reloads, refreshes, cancelAsked>>
    /\ UNCHANGED <<ledgerVars, srvVars, canvasVars>>

\* await fetch(...) resolves; a response that is not ok is thrown as an Error.
FetchResolved ==
    /\ chatPc = "fetch"
    /\ ~aborted
    /\ httpStatus # 0
    /\ IF ResponseOk(httpStatus)
       THEN /\ chatPc' = "reading"
            /\ UNCHANGED <<isProcessing, abortCtl, msgContent, msgStreaming, outcome, connOpen>>
       ELSE /\ CatchError
            /\ connOpen' = FALSE
    /\ UNCHANGED <<aborted, curReq, buffer, toolCalls, finalResponse, acted, dropped,
                   reloads, refreshes, cancelAsked>>
    /\ UNCHANGED <<reqSent, httpStatus, srvState, srvSteps, reserved, refunds, modelCalls,
                   trailing, srvClosed, wire>>
    /\ UNCHANGED <<ledgerVars, canvasVars>>

\* One turn of the while loop: reader.read() gives a chunk, the buffer is split
\* and the complete lines are dispatched; a terminal event leaves both loops,
\* reader.cancel() and the finally block follow in the same run.
ReadChunk ==
    /\ chatPc = "reading"
    /\ ~aborted
    /\ wire # <<>>
    /\ \E n \in 1..Len(wire) :
       \E lines \in {SplitLines(buffer \o SubSeq(wire, 1, n))} :
       \E cs \in {ProcessLines(SubSeq(lines, 1, Len(lines) - 1), 1,
                       [content |-> msgContent, streaming |-> msgStreaming,
                        toolCalls |-> toolCalls, finalResponse |-> finalResponse,
                        acted |-> acted, dropped |-> dropped, reloads |-> reloads,
                        refreshes |-> refreshes, complete |-> FALSE,
                        outcome |-> outcome])} :
            /\ buffer' = Remainder(lines)
            /\ msgContent' = cs.content
            /\ msgStreaming' = cs.streaming
            /\ toolCalls' = cs.toolCalls
            /\ finalResponse' = cs.finalResponse
            /\ acted' = cs.acted
            /\ dropped' = cs.dropped
            /\ reloads' = cs.reloads
            /\ refreshes' = cs.refreshes
            /\ outcome' = cs.outcome
            /\ IF cs.complete
               THEN /\ Finally
                    /\ connOpen' = FALSE
                    /\ wire' = <<>>
               ELSE /\ UNCHANGED <<isProcessing, abortCtl, chatPc, connOpen>>
                    /\ wire' = SubSeq(wire, n + 1, Len(wire))
    /\ UNCHANGED <<aborted, curReq, cancelAsked>>
    /\ UNCHANGED <<reqSent, httpStatus, srvState, srvSteps, reserved, refunds, modelCalls,
                   trailing, srvClosed>>
    /\ UNCHANGED <<ledgerVars, canvasVars>>

\* reader.read() gives done: break, reader.cancel(), finally. Nothing is done
\* with the buffer or the message.
ReadDone ==
    /\ chatPc = "reading"
    /\ ~aborted
    /\ wire = <<>>
    /\ srvClosed
    /\ outcome' = "eof"
    /\ Finally
    /\ connOpen' = FALSE
    /\ UNCHANGED <<aborted, curReq, buffer, msgContent, msgStreaming, toolCalls,
                   finalResponse, acted, dropped, reloads, refreshes, cancelAsked>>
    /\ UNCHANGED <<reqSent, httpStatus, srvState, srvSteps, reserved, refunds, modelCalls,
                   trailing, srvClosed, wire>>
    /\ UNCHANGED <<ledgerVars, canvasVars>>

\* fetch() or reader.read() rejects with a network error
NetworkError ==
    /\ chatPc \in {"fetch", "reading"}
    /\ ~aborted
    /\ CatchError
    /\ connOpen' = FALSE
    /\ wire' = <<>>
    /\ UNCHANGED <<aborted, curReq, buffer, toolCalls, finalResponse, acted, dropped,
                   reloads, refreshes, cancelAsked>>
    /\ UNCHANGED <<reqSent, httpStatus, srvState, srvSteps, reserved, refunds, modelCalls,
                   trailing, srvClosed>>
    /\ UNCHANGED <<ledgerVars, canvasVars>>

\* handleCancel: the Cancel button is rendered while isProcessing.
Cancel ==
    /\ isProcessing
    /\ cancelAsked' = TRUE
    /\ IF abortCtl
       THEN /\ aborted' = TRUE
            /\ connOpen' = FALSE
            /\ wire' = <<>>
       ELSE UNCHANGED <<aborted, connOpen, wire>>
    /\ UNCHANGED <<isProcessing, chatPc, abortCtl, curReq, buffer, msgContent, msgStreaming,
                   toolCalls, finalResponse, acted, dropped, reloads, refreshes, outcome>>
    /\ UNCHANGED <<reqSent, httpStatus, srvState, srvSteps, reserved, refunds, modelCalls,
                   trailing, srvClosed>>
    /\ UNCHANGED <<ledgerVars, canvasVars>>

\* the pending fetch() or reader.read() rejects with an AbortError
AbortCaught ==
    /\ chatPc \in {"fetch", "reading"}
    /\ aborted
    /\ msgContent' = "cancelled"
    /\ msgStreaming' = FALSE
    /\ outcome' = "cancelled"
    /\ Finally
    /\ UNCHANGED <<aborted, curReq, buffer, toolCalls, finalResponse, acted, dropped,
                   reloads, refreshes, cancelAsked>>
    /\ UNCHANGED <<ledgerVars, srvVars, canvasVars>>

(***************************************************************************)
(* The streaming endpoint (agent/execute-stream): admission, the tool      *)
(* loop, the terminal event, the refund. The backend router is not among   *)
(* the sources; these actions follow the design document (sections 4.1,    *)
(* 4.3, 6, 7) and the credits plan. The ledger calls are the SQL functions *)
(* above, each run as one transaction.                                     *)
(***************************************************************************)
Subject == "u1"
Active == {"Looping", "Tooling", "Responding"}

\* 'data: <json>\n\n'
Encode(ev) == <<DataPrefix, ev, Newline, Newline>>

\* The bytes reach the connection while the client holds it; the connection
\* buffers MaxWire unread bytes, a sender with more waits (flow control).
Emit(evs) ==
    /\ connOpen => Len(wire) + Len(evs) <= MaxWire
    /\ wire' = IF connOpen THEN wire \o evs ELSE wire

\* A rejected request is answered with a JSON error body, not a stream.
RejectBody ==
    /\ wire' = IF connOpen THEN <<BadJson>> ELSE wire
    /\ srvClosed' = TRUE

\* A faulty variant of RefundsOnFailure: the failure path issues no refund.
RefundsOnFailureNone(wasReserved) == 0

\* refund_credit calls issued when a request fails: one if it holds a reservation
RefundsOnFailure(wasReserved) == IF wasReserved THEN 1 ELSE 0

\* refund_credit(Subject, 1) on the balance, once per call issued
RefundCredit ==
    /\ refunds' = refunds + RefundsOnFailure(reserved)
    /\ credits' = IF ProfileFound(Subject) /\ RefundsOnFailure(reserved) > 0
                  THEN [credits EXCEPT ![Subject] =
                            AddCredits(credits[Subject], RefundsOnFailure(reserved))]
                  ELSE credits

\* Admission: 401, 404, then consume_credit(Subject, 1): 402 or 200 + Started.
SrvAdmit ==
    \E authOk \in BOOLEAN, owned \in BOOLEAN :
        /\ reqSent
        /\ httpStatus = 0
        /\ LET res == ConsumeResult(ProfileFound(Subject), credits[Subject], 1)
               writes == ConsumeWrites(ProfileFound(Subject), credits[Subject], 1)
           IN IF ~authOk
              THEN /\ httpStatus' = 401
                   /\ srvState' = "Rejected"
                   /\ RejectBody
                   /\ UNCHANGED <<credits, reserved>>
              ELSE IF ~owned
              THEN /\ httpStatus' = 404
                   /\ srvState' = "Rejected"
                   /\ RejectBody
                   /\ UNCHANGED <<credits, reserved>>
              ELSE /\ credits' = IF writes
                                 THEN [credits EXCEPT ![Subject] = DeductCredits(credits[Subject], 1)]
                                 ELSE credits
                   /\ IF res = "ok"
                      THEN /\ httpStatus' = 200
                           /\ srvState' = "Looping"
                           /\ reserved' = TRUE
                           /\ Emit(Encode("S"))
                           /\ UNCHANGED srvClosed
                      ELSE /\ httpStatus' = 402
                           /\ srvState' = "Failed"
                           /\ RejectBody
                           /\ UNCHANGED reserved
        /\ UNCHANGED <<profiles, initCredits, rowLock, txPc, txKind, txUser, txAmount,
                       txCur, txFound, txResult, txWaited>>
        /\ UNCHANGED <<reqSent, srvSteps, refunds, modelCalls, trailing, connOpen>>
        /\ UNCHANGED <<chatVars, canvasVars>>

\* Looping: the model proposes a tool call; ToolCall is emitted.
SrvToolCall ==
    \E tool \in ToolNames :
        /\ srvState = "Looping"
        /\ connOpen
        /\ srvSteps < MaxSteps
        /\ modelCalls' = modelCalls + 1
        /\ srvSteps' = srvSteps + 1
        /\ srvState' = "Tooling"
        /\ Emit(Encode(IF tool = "a" THEN "Ta" ELSE "Tb"))
        /\ UNCHANGED <<reqSent, httpStatus, reserved, refunds, trailing, connOpen, srvClosed>>
        /\ UNCHANGED <<ledgerVars, chatVars, canvasVars>>

\* The tool has run (found or not found): ToolResult is emitted, back to Looping.
SrvToolResult ==
    \E tool \in ToolNames, found \in BOOLEAN :
        /\ srvState = "Tooling"
        /\ connOpen
        /\ srvState' = "Looping"
        /\ Emit(Encode(IF found THEN (IF tool = "a" THEN "Ra" ELSE "Rb")
                       ELSE (IF tool = "a" THEN "Xa" ELSE "Xb")))
        /\ UNCHANGED <<reqSent, httpStatus, srvSteps, reserved, refunds, modelCalls,
                       trailing, connOpen, srvClosed>>
        /\ UNCHANGED <<ledgerVars, chatVars, canvasVars>>

\* Looping: the model gives its final answer, or the iteration cap is reached.
SrvFinalAnswer ==
    /\ srvState = "Looping"
    /\ connOpen
    /\ modelCalls' = (IF srvSteps < MaxSteps THEN modelCalls + 1 ELSE modelCalls)
    /\ srvState' = "Responding"
    /\ UNCHANGED <<reqSent, httpStatus, srvSteps, reserved, refunds, trailing,
                   connOpen, srvClosed, wire>>
    /\ UNCHANGED <<ledgerVars, chatVars, canvasVars>>

\* Responding -> Completed: Response (if there is one), then Completed.
SrvRespond ==
    \E withResponse \in BOOLEAN :
        /\ srvState = "Responding"
        /\ connOpen
        /\ srvState' = "Completed"
        /\ Emit(IF withResponse THEN Encode("P") \o Encode("C") ELSE Encode("C"))
        /\ UNCHANGED <<reqSent, httpStatus, srvSteps, reserved, refunds, modelCalls,
                       trailing, connOpen, srvClosed>>
        /\ UNCHANGED <<ledgerVars, chatVars, canvasVars>>

\* Model failure, tool-engine exception or timeout: Error, refund, Failed.
SrvFail ==
    /\ srvState \in Active
    /\ connOpen
    /\ srvState' = "Failed"
    /\ Emit(Encode("E"))
    /\ RefundCredit
    /\ UNCHANGED <<profiles, initCredits, rowLock, txPc, txKind, txUser, txAmount,
                   txCur, txFound, txResult, txWaited>>
    /\ UNCHANGED <<reqSent, httpStatus, srvSteps, reserved, modelCalls, trailing,
                   connOpen, srvClosed>>
    /\ UNCHANGED <<chatVars, canvasVars>>

\* The caller is gone before a terminal event: forced Failed, refund, no more
\* model calls or tool executions.
SrvCancelled ==
    /\ srvState \in Active
    /\ ~connOpen
    /\ srvState' = "Failed"
    /\ srvClosed' = TRUE
    /\ RefundCredit
    /\ UNCHANGED <<profiles, initCredits, rowLock, txPc, txKind, txUser, txAmount,
                   txCur, txFound, txResult, txWaited>>
    /\ UNCHANGED <<reqSent, httpStatus, srvSteps, reserved, modelCalls, trailing,
                   connOpen, wire>>
    /\ UNCHANGED <<chatVars, canvasVars>>

\* An event that reaches the connection behind the terminal one (a server slow
\* to close): the client is to ignore it.
SrvTrailing ==
    \E ev \in {"P", "C", "E"} :
        /\ srvState \in {"Completed", "Failed"}
        /\ httpStatus = 200
        /\ connOpen
        /\ ~srvClosed
        /\ trailing < MaxTrailing
        /\ trailing' = trailing + 1
        /\ Emit(Encode(ev))
        /\ UNCHANGED <<reqSent, httpStatus, srvState, srvSteps, reserved, refunds,
                       modelCalls, connOpen, srvClosed>>
        /\ UNCHANGED <<ledgerVars, chatVars, canvasVars>>

\* The stream is closed after the terminal event.
SrvClose ==
    /\ srvState \in {"Completed", "Failed"}
    /\ httpStatus = 200
    /\ ~srvClosed
    /\ srvClosed' = TRUE
    /\ UNCHANGED <<reqSent, httpStatus, srvState, srvSteps, reserved, refunds,
                   modelCalls, trailing, connOpen, wire>>
    /\ UNCHANGED <<ledgerVars, chatVars, canvasVars>>

\* The connection ends before the server has sent a terminal event (a proxy or
\* the network closes it cleanly): the reader sees done.
ConnEndsEarly ==
    /\ srvState \in Active
    /\ connOpen
    /\ ~srvClosed
    /\ chatPc = "reading"
    /\ srvClosed' = TRUE
    /\ UNCHANGED <<reqSent, httpStatus, srvState, srvSteps, reserved, refunds,
                   modelCalls, trailing, connOpen, wire>>
    /\ UNCHANGED <<ledgerVars, chatVars, canvasVars>>

(***************************************************************************)
(* Document trees (JSONContent) and stripAiResponseMarks.                  *)
(*                                                                         *)
(* A node is a record: type; text, the characters of a text node (<<>> when*)
(* the key is absent); hasMarks and marks, the marks key and its array;    *)
(* hasContent and content, the content key and its array. A mark is given  *)
(* either as an object {type: ...} or as a bare string (str).              *)
(***************************************************************************)
AiResponse == "aiResponse"

MarkBold == [str |-> FALSE, type |-> "bold"]
MarkAi == [str |-> FALSE, type |-> AiResponse]
MarkAiStr == [str |-> TRUE, type |-> AiResponse]

\* the attrs key is absent
NoAttrs == ""

Node(ty, txt, hm, mk, hc, ct) ==
    [type |-> ty, attrs |-> NoAttrs, text |-> txt, hasMarks |-> hm, marks |-> mk,
     hasContent |-> hc, content |-> ct]

\* a node with an attrs key
WithAttrs(node, a) == [node EXCEPT !.attrs = a]

\* A faulty variant of KeepsMark: the filter keeps no mark at all.
KeepsMarkNothing(mark) == FALSE

\* mark => typeof mark === 'string' ? mark !== 'aiResponse' : mark.type !== 'aiResponse'
KeepsMark(mark) == IF mark.str THEN mark.type # AiResponse ELSE mark.type # AiResponse

\* result.marks.filter(...)
FilterMarks(marks) == SelectSeq(marks, KeepsMark)

\* if (result.marks.length === 0) delete result.marks
MarksKeyKept(filtered) == Len(filtered) # 0

\* stripFromNode: the marks key is looked at when it holds an array (an empty
\* array is truthy), the content array is mapped recursively.
\* A faulty variant of stripFromNode: the content array is not descended into.
stripFromNodeShallow(node) ==
    LET filtered == FilterMarks(node.marks)
    IN IF node.hasMarks
       THEN [node EXCEPT !.marks = filtered, !.hasMarks = MarksKeyKept(filtered)]
       ELSE node

RECURSIVE stripFromNode(_)
stripFromNode(node) ==
    LET filtered == FilterMarks(node.marks)
        result == IF node.hasMarks
                  THEN [node EXCEPT !.marks = filtered,
                                    !.hasMarks = MarksKeyKept(filtered)]
                  ELSE node
    IN IF result.hasContent
       THEN [result EXCEPT !.content =
                [i \in 1..Len(result.content) |-> stripFromNode(result.content[i])]]
       ELSE result

stripAiResponseMarks(content) == stripFromNode(content)

\* Concatenation of a sequence of sequences
RECURSIVE Flatten(_)
Flatten(ss) == IF ss = <<>> THEN <<>> ELSE Head(ss) \o Flatten(Tail(ss))

\* JSON.stringify of a mark and of a node, as a sequence of tokens
SerializeMark(mark) ==
    IF mark.str THEN <<"str", mark.type>> ELSE <<"{", "type", mark.type, "}">>

RECURSIVE Serialize(_)
Serialize(node) ==
    <<"{", "type", node.type>>
    \o (IF node.attrs # NoAttrs THEN <<"attrs", node.attrs>> ELSE <<>>)
    \o (IF node.text # <<>> THEN <<"text">> \o node.text ELSE <<>>)
    \o (IF node.hasMarks
        THEN <<"marks", "[">>
             \o Flatten([i \in 1..Len(node.marks) |-> SerializeMark(node.marks[i])])
             \o <<"]">>
        ELSE <<>>)
    \o (IF node.hasContent
        THEN <<"content", "[">>
             \o Flatten([i \in 1..Len(node.content) |-> Serialize(node.content[i])])
             \o <<"]">>
        ELSE <<>>)
    \o <<"}">>

\* Some node of the tree carries an aiResponse mark, in either form.
RECURSIVE HasAiMark(_)
HasAiMark(node) ==
    \/ \E i \in 1..Len(node.marks) : node.marks[i].type = AiResponse
    \/ \E i \in 1..Len(node.content) : HasAiMark(node.content[i])

\* Some node of the tree has a marks key holding an empty array.
RECURSIVE HasEmptyMarks(_)
HasEmptyMarks(node) ==
    \/ node.hasMarks /\ node.marks = <<>>
    \/ \E i \in 1..Len(node.content) : HasEmptyMarks(node.content[i])

\* Some node of the tree carries a mark other than aiResponse.
RECURSIVE HasOtherMark(_)
HasOtherMark(node) ==
    \/ \E i \in 1..Len(node.marks) : node.marks[i].type # AiResponse
    \/ \E i \in 1..Len(node.content) : HasOtherMark(node.content[i])

\* The trees the function is applied to: a doc of one paragraph of up to
\* MaxKids text nodes, the paragraph directly under the doc or inside a
\* blockquote; every marks key is absent, empty or a mix of marks.
SeqsUpTo(S, n) == UNION {[1..k -> S] : k \in 0..n}

NoKey == [has |-> FALSE, arr |-> <<>>]

TextMarks ==
    {NoKey} \cup {[has |-> TRUE, arr |-> m] :
                    m \in {<<>>, <<MarkBold>>, <<MarkAi>>, <<MarkBold, MarkAi>>, <<MarkAiStr>>}}

BlockMarks == {NoKey, [has |-> TRUE, arr |-> <<>>]}

TextNodes == {Node("text", <<"t">>, m.has, m.arr, FALSE, <<>>) : m \in TextMarks}

Paragraphs ==
    {Node("paragraph", <<>>, m.has, m.arr, c.has, c.arr) :
        m \in BlockMarks,
        c \in {NoKey} \cup {[has |-> TRUE, arr |-> s] : s \in SeqsUpTo(TextNodes, MaxKids)}}

Blocks ==
    Paragraphs
    \cup {WithAttrs(Node("blockquote", <<>>, FALSE, <<>>, TRUE, <<p>>), "quote") :
            p \in Paragraphs}

Docs == {Node("doc", <<>>, FALSE, <<>>, TRUE, <<b>>) : b \in Blocks}

\* { type: 'doc', content: [{ type: 'paragraph' }] }
EmptyDoc == Node("doc", <<>>, FALSE, <<>>, TRUE, <<Node("paragraph", <<>>, FALSE, <<>>, FALSE, <<>>)>>)

(***************************************************************************)
(* CanvasEditor: the document, single-shot patches (improve-text and       *)
(* @agent instruction), highlight timers and the save paths.               *)
(*                                                                         *)
(* The repository holds two revisions of the component: the one in         *)
(* CanvasItem.tsx, and the one in part_004. edSrc says which one is        *)
(* mounted. The document is one paragraph; a position is an offset into    *)
(* its text. Time is counted in milliseconds.                              *)
(***************************************************************************)
EditorSources == {"CanvasItem", "part_004"}

MIN_LLM_CALL_INTERVAL == 2000
AutoSaveDelay == 5000
TitleSaveDelay == 2000
MarkDelay == 100

\* the delay after which the highlight is taken off again
FadeDelay(src) == IF src = "part_004" THEN 7000 ELSE 5000

\* contentDebounceRef.current / titleDebounceRef.current is null
NoTimer == -1

Names == {"n0", "n1"}
Fence == "~"
Markup == "*"

\* Texts a response body holds; the empty text is a body without text.
Payloads == {<<>>, <<"r", "r">>}

\* A faulty variant of TooSoon: no call is held back.
TooSoonNever(timeSinceLastCall) == FALSE

\* if (timeSinceLastCall < MIN_LLM_CALL_INTERVAL) { toast.error(...); return; }
TooSoon(timeSinceLastCall) == timeSinceLastCall < MIN_LLM_CALL_INTERVAL

\* null, which like the empty string is falsy in 'if (response)'
Null == <<>>

\* How a single-shot call ends: a 2xx answer with success true; a status that
\* is not 2xx (401 and 402 included); an answer with success false; a network
\* or authentication exception.
CallKinds == {"ok", "status", "unsuccessful", "exception"}

\* A faulty variant of improveText: the text of the body is returned whatever
\* the answer says.
improveTextUnchecked(kind, text) == text

\* improveText: data.improved_text, or null from handleAuthError and from the
\* catch block
improveText(kind, text) == IF kind = "ok" THEN text ELSE Null

\* executeInstruction: data.response, or null
executeInstruction(kind, text) == IF kind = "ok" THEN text ELSE Null

Char(c, ai) == [ch |-> c, ai |-> ai]
TextOf(d) == [i \in 1..Len(d) |-> d[i].ch]
TextChanged(d1, d2) == TextOf(d1) # TextOf(d2)

\* setTextSelection keeps a position inside the document
Clamp(p, d) == IF p < 0 THEN 0 ELSE IF p > Len(d) THEN Len(d) ELSE p

\* The marks a text inserted over [from, to) gets: those at the position.
InheritAi(d, from, to) ==
    IF from < to THEN d[from + 1].ai
    ELSE IF from > 0 THEN d[from].ai
    ELSE IF Len(d) > 0 THEN d[1].ai
    ELSE FALSE

\* chain().setTextSelection({from, to}).insertContent(text)
InsertText(d, text, from, to) ==
    LET f == Clamp(from, d)
        t == Clamp(to, d)
        ai == InheritAi(d, f, t)
    IN SubSeq(d, 1, f) \o [i \in 1..Len(text) |-> Char(text[i], ai)] \o SubSeq(d, t + 1, Len(d))

\* text.trim()
RECURSIVE TrimWs(_)
TrimWs(text) ==
    IF text = <<>> THEN text
    ELSE IF text[1] \in {Blank, Newline} THEN TrimWs(Tail(text))
    ELSE IF text[Len(text)] \in {Blank, Newline} THEN TrimWs(SubSeq(text, 1, Len(text) - 1))
    ELSE text

\* lines.join('\n')
RECURSIVE JoinLines(_)
JoinLines(lines) ==
    IF lines = <<>> THEN <<>>
    ELSE IF Len(lines) = 1 THEN lines[1]
    ELSE lines[1] \o <<Newline>> \o JoinLines(Tail(lines))

\* cleanMarkdown: trim, then drop the first and the last line of a text that
\* starts and ends with a fence.
cleanMarkdown(text) ==
    LET cleaned == TrimWs(text)
    IN IF cleaned # <<>> /\ cleaned[1] = Fence /\ cleaned[Len(cleaned)] = Fence
       THEN LET lines == SplitLines(cleaned)
            IN IF Len(lines) >= 2
               THEN JoinLines(SubSeq(lines, 2, Len(lines) - 1))
               ELSE cleaned
       ELSE cleaned

\* containsMarkdown: some pattern of markdownPatterns matches the text.  Fence
\* stands for three backticks, Markup for an asterisk; every other character of
\* the model takes part in no pattern.
\*   code (inline or block): two fences, whatever is between them
\*   italic, bold, rule: two asterisks on one line with something between them
\*   unordered list: an asterisk after nothing but whitespace, then whitespace,
\*                   then one more character on that line
Whitespace == {Blank, Newline}
containsMarkdown(text) ==
    \/ \E i, j \in 1..Len(text) : i < j /\ text[i] = Fence /\ text[j] = Fence
    \/ \E i, j \in 1..Len(text) :
          /\ i + 1 < j /\ text[i] = Markup /\ text[j] = Markup
          /\ \A k \in (i + 1)..(j - 1) : text[k] # Newline
    \/ \E i, j \in 1..Len(text) :
          /\ i + 1 < j /\ text[i] = Markup /\ text[j] # Newline
          /\ \A k \in (i + 1)..(j - 1) : text[k] \in Whitespace
          /\ \E st \in 1..i :
                /\ (st = 1 \/ text[st - 1] = Newline)
                /\ \A k \in st..(i - 1) : text[k] \in Whitespace

\* The text of the nodes markdownToHtml and the HTML parser make of a text
RenderedText(text) == SelectSeq(text, LAMBDA c : c \notin {Fence, Markup, Newline})

\* insertMarkdownContent
insertMarkdownContent(d, content, from, to) ==
    LET cleanedContent == cleanMarkdown(content)
    IN IF containsMarkdown(cleanedContent)
       THEN InsertText(d, RenderedText(cleanedContent), from, to)
       ELSE InsertText(d, cleanedContent, from, to)

\* editor.state.selection.to after the insertion: the end of what was inserted
SelectionToAfterInsert(d, d2, from, to) ==
    Clamp(from, d) + (Len(d2) - (Len(d) - (Clamp(to, d) - Clamp(from, d))))

\* The replacement a patch makes, by revision
ApplyPatch(src, d, content, from, to) ==
    IF src = "CanvasItem" THEN insertMarkdownContent(d, content, from, to)
    ELSE InsertText(d, content, from, to)

\* The end of the range to highlight, by revision
PatchNewTo(src, d, d2, content, from, to) ==
    IF src = "CanvasItem" THEN SelectionToAfterInsert(d, d2, from, to)
    ELSE from + Len(content)

\* chain().setTextSelection({from, to}).setMark('aiResponse') / unsetMark
SetAi(d, from, to, ai) ==
    LET f == Clamp(from, d)
        t == Clamp(to, d)
    IN [i \in 1..Len(d) |-> IF i > f /\ i <= t THEN Char(d[i].ch, ai) ELSE d[i]]

\* tr.removeMark over every text node that carries the mark
RemoveAllAi(d) == [i \in 1..Len(d) |-> Char(d[i].ch, FALSE)]

\* The highlight taken off when the fade timer fires, by revision
Unhighlight(src, d, from, to) ==
    IF src = "CanvasItem" THEN RemoveAllAi(d) ELSE SetAi(d, from, to, FALSE)

\* editor.getJSON(): adjacent characters with the same marks form a text node
RECURSIVE TextRuns(_)
TextRuns(d) ==
    IF d = <<>> THEN <<>>
    ELSE LET k == CHOOSE j \in 1..Len(d) :
                    /\ \A i \in 1..j : d[i].ai = d[1].ai
                    /\ (j < Len(d) => d[j + 1].ai # d[1].ai)
         IN <<Node("text", TextOf(SubSeq(d, 1, k)), d[1].ai,
                   IF d[1].ai THEN <<MarkAi>> ELSE <<>>, FALSE, <<>>)>>
            \o TextRuns(SubSeq(d, k + 1, Len(d)))

getJSON(d) ==
    Node("doc", <<>>, FALSE, <<>>, TRUE,
         <<Node("paragraph", <<>>, FALSE, <<>>, d # <<>>, TextRuns(d))>>)

\* editor.commands.setContent(content): the document a tree stands for
NodeChars(node) ==
    [i \in 1..Len(node.text) |->
        Char(node.text[i], \E j \in 1..Len(node.marks) : node.marks[j].type = AiResponse)]

setContent(content) ==
    LET para == content.content[1]
    IN Flatten([i \in 1..Len(para.content) |-> NodeChars(para.content[i])])

\* The line the caret is on reads "@agent <instruction>"
IsInstructionLine(d) == Len(d) >= 2 /\ d[1].ch = "@"

\* The canvas that is loaded: one line, "@agent <instruction>"
LoadedDoc == <<Char("@", FALSE), Char("a", FALSE)>>

InitEditorWith(src, d) ==
    /\ edSrc = src
    /\ doc = d
    /\ canvasName = "n0"
    /\ isImproving = FALSE
    /\ impFrom = 0
    /\ impTo = 0
    /\ impMutated = FALSE
    /\ isProcessingInstruction = FALSE
    /\ insFrom = 0
    /\ insTo = 0
    /\ insMutated = FALSE
    /\ sinceLLM = MIN_LLM_CALL_INTERVAL
    /\ contentTimer = NoTimer
    /\ titleTimer = NoTimer
    /\ titleVal = "n0"
    /\ markTimers = {}
    /\ unmarkTimers = {}
    /\ inFlight = <<>>
    /\ lastPatch = "none"
    /\ lastCall = "none"
    /\ edits = 0
    /\ calls = 0
    /\ userSaves = 0

InitEditorIdle == InitEditorWith("CanvasItem", <<>>)

InitStripIdle ==
    /\ tree = EmptyDoc
    /\ once = EmptyDoc
    /\ twice = EmptyDoc
    /\ stripPc = "input"

InitPatchIdle ==
    /\ payload = <<>>
    /\ before = <<>>
    /\ pFrom = 0
    /\ pTo = 0
    /\ pCleaned = <<>>
    /\ after = <<>>
    /\ patchPc = "input"

\* The canvases of the user and what the store holds for each
CanvasIds == {"A", "B"}
NoCanvas == "none"
StoredAt(id) == getJSON(IF id = "A" THEN LoadedDoc ELSE <<Char("b", FALSE)>>)

\* The page shows canvas A, loaded; no agent request has touched it.
InitPageIdle ==
    /\ canvasId = "A"
    /\ currentCanvas = "A"
    /\ isFetchingCanvas = FALSE
    /\ hasFetchedCurrentCanvas = "A"
    /\ fetching = NoCanvas
    /\ stored = [id \in CanvasIds |-> StoredAt(id)]
    /\ committed = FALSE
    /\ reloadPc = "none"

\* handleSend has not been called.
InitPanelIdle ==
    /\ sendPc = [r \in 1..MaxSends |-> "idle"]
    /\ abortControllerRef = 0
    /\ signalled = {}

\* The editor is mounted and no timer has been set.
InitDebounceIdle ==
    /\ timers = {}
    /\ contentDebounceRef = 0
    /\ titleDebounceRef = 0
    /\ nextTimer = 1
    /\ mounted = TRUE
    /\ sinceUpdate = 0
    /\ sinceTitle = 0
    /\ fired = [kind |-> "none", id |-> 0, quiet |-> 0, mounted |-> TRUE]

InitCanvasIdle ==
    /\ InitStripIdle /\ InitEditorIdle /\ InitPatchIdle /\ InitPageIdle /\ InitPanelIdle /\ InitDebounceIdle
    /\ InitDebounceIdle

(***************************************************************************)
(* insertMarkdownContent applied to one payload and one range              *)
(***************************************************************************)
PayloadChars == {"r", Blank, Newline, Fence, Markup}

\* a fenced block, a line break, and another fenced block
TwoFencedBlocks ==
    <<Fence, Newline, "r", Newline, Fence, Newline, Fence, Newline, "r", Newline, Fence>>

PatchPayloads == SeqsUpTo(PayloadChars, MaxPayload) \cup {TwoFencedBlocks}
PatchDocs == {SubSeq(LoadedDoc, 1, k) : k \in 0..Len(LoadedDoc)}

otherThanPatch == <<ledgerVars, chatVars, srvVars, stripVars, editorVars, pageVars, panelVars, debounceVars>>

InitPatch ==
    /\ InitLedger /\ initCredits = 0 /\ InitChat /\ InitSrv
    /\ InitStripIdle /\ InitEditorIdle /\ InitPageIdle /\ InitPanelIdle /\ InitDebounceIdle
    /\ payload \in PatchPayloads
    /\ before \in PatchDocs
    /\ pFrom \in 0..Len(before)
    /\ pTo \in pFrom..Len(before)
    /\ pCleaned = <<>>
    /\ after = before
    /\ patchPc = "input"

\* const cleanedContent = cleanMarkdown(content)
CleanPayload ==
    /\ patchPc = "input"
    /\ pCleaned' = cleanMarkdown(payload)
    /\ patchPc' = "cleaned"
    /\ UNCHANGED <<payload, before, pFrom, pTo, after>>
    /\ UNCHANGED otherThanPatch

\* the insertion insertMarkdownContent makes with it
InsertPayload ==
    /\ patchPc = "cleaned"
    /\ after' = insertMarkdownContent(before, payload, pFrom, pTo)
    /\ patchPc' = "applied"
    /\ UNCHANGED <<payload, before, pFrom, pTo, pCleaned>>
    /\ UNCHANGED otherThanPatch

NextPatch == CleanPayload \/ InsertPayload

SpecPatch == InitPatch /\ [][NextPatch]_vars

otherThanStrip == <<ledgerVars, chatVars, srvVars, editorVars, patchVars, pageVars, panelVars, debounceVars>>

InitStrip ==
    /\ InitLedger /\ initCredits = 0 /\ InitChat /\ InitSrv /\ InitEditorIdle
    /\ InitPatchIdle /\ InitPageIdle /\ InitPanelIdle /\ InitDebounceIdle
    /\ tree \in Docs
    /\ once = EmptyDoc
    /\ twice = EmptyDoc
    /\ stripPc = "input"

\* const cleanContent = stripAiResponseMarks(content)
StripOnce ==
    /\ stripPc = "input"
    /\ once' = stripAiResponseMarks(tree)
    /\ stripPc' = "once"
    /\ UNCHANGED <<tree, twice>>
    /\ UNCHANGED otherThanStrip

\* the function applied to its own result
StripTwice ==
    /\ stripPc = "once"
    /\ twice' = stripAiResponseMarks(once)
    /\ stripPc' = "twice"
    /\ UNCHANGED <<tree, once>>
    /\ UNCHANGED otherThanStrip

NextStrip == StripOnce \/ StripTwice

SpecStrip == InitStrip /\ [][NextStrip]_vars

otherThanEditor == <<ledgerVars, chatVars, srvVars, stripVars, patchVars, pageVars, panelVars, debounceVars>>

timerVars == <<contentTimer, titleTimer, titleVal, markTimers, unmarkTimers>>
improveVars == <<isImproving, impFrom, impTo, impMutated>>
instructVars == <<isProcessingInstruction, insFrom, insTo, insMutated>>

\* onUpdate: () => handleAutoSave(), run when a transaction changed the document
OnUpdate(d2) ==
    contentTimer' = IF d2 # doc THEN AutoSaveDelay ELSE contentTimer

\* The text changed under a range captured by a call still in flight
NoteMutation(d2) ==
    /\ impMutated' = (impMutated \/ (isImproving /\ TextChanged(doc, d2)))
    /\ insMutated' = (insMutated \/ (isProcessingInstruction /\ TextChanged(doc, d2)))

\* The user types a character at offset p.
TypeChar ==
    /\ edits < MaxEdits
    /\ Len(doc) < MaxDocLen
    /\ \E p \in 0..Len(doc) :
       \E d2 \in {InsertText(doc, <<"a">>, p, p)} :
            /\ doc' = d2
            /\ OnUpdate(d2)
            /\ NoteMutation(d2)
    /\ edits' = edits + 1
    /\ UNCHANGED <<edSrc, canvasName, isImproving, impFrom, impTo, isProcessingInstruction,
                   insFrom, insTo, sinceLLM, titleTimer, titleVal, markTimers, unmarkTimers,
                   inFlight, lastPatch, lastCall, calls, userSaves>>
    /\ UNCHANGED otherThanEditor

\* The user deletes the character before offset p.
DeleteChar ==
    /\ edits < MaxEdits
    /\ \E p \in 1..Len(doc) :
       \E d2 \in {SubSeq(doc, 1, p - 1) \o SubSeq(doc, p + 1, Len(doc))} :
            /\ doc' = d2
            /\ OnUpdate(d2)
            /\ NoteMutation(d2)
    /\ edits' = edits + 1
    /\ UNCHANGED <<edSrc, canvasName, isImproving, impFrom, impTo, isProcessingInstruction,
                   insFrom, insTo, sinceLLM, titleTimer, titleVal, markTimers, unmarkTimers,
                   inFlight, lastPatch, lastCall, calls, userSaves>>
    /\ UNCHANGED otherThanEditor

\* handleImproveText up to await improveText(...): the selection [from, to) is
\* captured.
ImproveStartWithin(n) ==
    /\ ~isImproving
    /\ ~TooSoon(sinceLLM)
    /\ calls < n
    /\ \E from \in 0..Len(doc), to \in 0..Len(doc) :
            /\ from < to
            /\ TrimWs(TextOf(SubSeq(doc, from + 1, to))) # <<>>
            /\ impFrom' = from
            /\ impTo' = to
    /\ sinceLLM' = 0
    /\ isImproving' = TRUE
    /\ impMutated' = FALSE
    /\ calls' = calls + 1
    /\ UNCHANGED <<edSrc, doc, canvasName, instructVars, timerVars, inFlight, lastPatch, lastCall,
                   edits, userSaves>>
    /\ UNCHANGED otherThanEditor

ImproveStart == ImproveStartWithin(MaxCalls)

\* handleImproveText after the await: the patch goes in at the captured from
\* and to, the setMark timer is set, finally clears isImproving.
ImproveResolved ==
    /\ isImproving
    /\ \E kind \in CallKinds, text \in Payloads :
       \E improvedText \in {improveText(kind, text)} :
         /\ lastCall' = kind
         /\ IF improvedText # Null
            THEN \E d2 \in {ApplyPatch(edSrc, doc, improvedText, impFrom, impTo)} :
                   /\ doc' = d2
                   /\ OnUpdate(d2)
                   /\ markTimers' = markTimers \cup
                         {[from |-> impFrom,
                           to |-> PatchNewTo(edSrc, doc, d2, improvedText, impFrom, impTo),
                           rem |-> MarkDelay]}
                   /\ lastPatch' = IF impMutated THEN "stale" ELSE "fresh"
                   /\ insMutated' = (insMutated \/ (isProcessingInstruction /\ TextChanged(doc, d2)))
            ELSE UNCHANGED <<doc, contentTimer, markTimers, lastPatch, insMutated>>
    /\ isImproving' = FALSE
    /\ impMutated' = FALSE
    /\ UNCHANGED <<edSrc, canvasName, impFrom, impTo, isProcessingInstruction, insFrom, insTo,
                   sinceLLM, titleTimer, titleVal, unmarkTimers, inFlight, edits, calls,
                   userSaves>>
    /\ UNCHANGED otherThanEditor

\* Enter on an "@agent ..." line and handleAgentInstruction up to await
\* executeInstruction(...): the line's start and end are captured.
InstructionStartWithin(n) ==
    /\ ~isProcessingInstruction
    /\ IsInstructionLine(doc)
    /\ ~TooSoon(sinceLLM)
    /\ calls < n
    /\ insFrom' = 0
    /\ insTo' = Len(doc)
    /\ sinceLLM' = 0
    /\ isProcessingInstruction' = TRUE
    /\ insMutated' = FALSE
    /\ calls' = calls + 1
    /\ UNCHANGED <<edSrc, doc, canvasName, improveVars, timerVars, inFlight, lastPatch, lastCall,
                   edits, userSaves>>
    /\ UNCHANGED otherThanEditor

InstructionStart == InstructionStartWithin(MaxCalls)

\* handleAgentInstruction after the await
InstructionResolved ==
    /\ isProcessingInstruction
    /\ \E kind \in CallKinds, text \in Payloads :
       \E response \in {executeInstruction(kind, text)} :
         /\ lastCall' = kind
         /\ IF response # Null
            THEN \E d2 \in {ApplyPatch(edSrc, doc, response, insFrom, insTo)} :
                   /\ doc' = d2
                   /\ OnUpdate(d2)
                   /\ markTimers' = markTimers \cup
                         {[from |-> insFrom,
                           to |-> PatchNewTo(edSrc, doc, d2, response, insFrom, insTo),
                           rem |-> MarkDelay]}
                   /\ lastPatch' = IF insMutated THEN "stale" ELSE "fresh"
                   /\ impMutated' = (impMutated \/ (isImproving /\ TextChanged(doc, d2)))
            ELSE UNCHANGED <<doc, contentTimer, markTimers, lastPatch, impMutated>>
    /\ isProcessingInstruction' = FALSE
    /\ insMutated' = FALSE
    /\ UNCHANGED <<edSrc, canvasName, isImproving, impFrom, impTo, insFrom, insTo,
                   sinceLLM, titleTimer, titleVal, unmarkTimers, inFlight, edits, calls,
                   userSaves>>
    /\ UNCHANGED otherThanEditor

\* The 100 ms timer of a patch: setMark over the range, and the fade timer is
\* set.
MarkFire ==
    /\ \E tm \in markTimers :
        /\ tm.rem = 0
        /\ \E d2 \in {SetAi(doc, tm.from, tm.to, TRUE)} :
            /\ doc' = d2
            /\ OnUpdate(d2)
        /\ markTimers' = markTimers \ {tm}
        /\ unmarkTimers' = unmarkTimers \cup
              {[from |-> tm.from, to |-> tm.to, rem |-> FadeDelay(edSrc)]}
    /\ UNCHANGED <<edSrc, canvasName, improveVars, instructVars, sinceLLM, titleTimer,
                   titleVal, inFlight, lastPatch, lastCall, edits, calls, userSaves>>
    /\ UNCHANGED otherThanEditor

\* The fade timer: the highlight is taken off.
UnmarkFire ==
    /\ \E tm \in unmarkTimers :
        /\ tm.rem = 0
        /\ \E d2 \in {Unhighlight(edSrc, doc, tm.from, tm.to)} :
            /\ doc' = d2
            /\ OnUpdate(d2)
        /\ unmarkTimers' = unmarkTimers \ {tm}
    /\ UNCHANGED <<edSrc, canvasName, improveVars, instructVars, sinceLLM, titleTimer,
                   titleVal, markTimers, inFlight, lastPatch, lastCall, edits, calls, userSaves>>
    /\ UNCHANGED otherThanEditor

\* The content handed to updateCanvas, by revision
CleanContent(src, content) ==
    IF src = "CanvasItem" THEN stripAiResponseMarks(content) ELSE content

\* updateCanvas(canvasId, {name, content}) leaves
Dispatch(name, content) ==
    inFlight' = Append(inFlight, [id |-> canvasId, name |-> name, content |-> content])

\* The content timer of handleAutoSave fires: saveCanvas(canvasName, getJSON())
ContentSaveFire ==
    /\ contentTimer = 0
    /\ contentTimer' = NoTimer
    /\ Dispatch(canvasName, CleanContent(edSrc, getJSON(doc)))
    /\ UNCHANGED <<edSrc, doc, canvasName, improveVars, instructVars, sinceLLM,
                   titleTimer, titleVal, markTimers, unmarkTimers, lastPatch, lastCall, edits, calls,
                   userSaves>>
    /\ UNCHANGED otherThanEditor

\* handleTitleChange(value)
TitleChange ==
    /\ userSaves < MaxUserSaves
    /\ \E value \in Names \ {canvasName} :
        /\ canvasName' = value
        /\ titleVal' = value
    /\ titleTimer' = TitleSaveDelay
    /\ userSaves' = userSaves + 1
    /\ UNCHANGED <<edSrc, doc, improveVars, instructVars, sinceLLM, contentTimer, markTimers,
                   unmarkTimers, inFlight, lastPatch, lastCall, edits, calls>>
    /\ UNCHANGED otherThanEditor

\* The title timer fires: saveCanvas(value, getJSON())
TitleSaveFire ==
    /\ titleTimer = 0
    /\ titleTimer' = NoTimer
    /\ Dispatch(titleVal, CleanContent(edSrc, getJSON(doc)))
    /\ UNCHANGED <<edSrc, doc, canvasName, improveVars, instructVars, sinceLLM,
                   contentTimer, titleVal, markTimers, unmarkTimers, lastPatch, lastCall, edits, calls,
                   userSaves>>
    /\ UNCHANGED otherThanEditor

\* handleSaveCanvas (Save button, Ctrl+S) up to await updateCanvas(...)
ManualSave ==
    /\ userSaves < MaxUserSaves
    /\ Dispatch(canvasName, CleanContent(edSrc, getJSON(doc)))
    /\ userSaves' = userSaves + 1
    /\ UNCHANGED <<edSrc, doc, canvasName, improveVars, instructVars, sinceLLM,
                   timerVars, lastPatch, lastCall, edits, calls>>
    /\ UNCHANGED otherThanEditor

\* updateCanvas resolves with the stored canvas: onCanvasUpdate sets
\* currentCanvas, and the effect on currentCanvas puts its name and, when the
\* serializations differ, its content into the editor.
CanvasSet(name, content) ==
    /\ canvasName' = name
    /\ \E d2 \in {IF Serialize(getJSON(doc)) # Serialize(content)
                  THEN setContent(content)
                  ELSE doc} :
            /\ doc' = d2
            /\ NoteMutation(d2)
    /\ UNCHANGED <<edSrc, isImproving, impFrom, impTo, isProcessingInstruction, insFrom, insTo,
                   sinceLLM, timerVars, lastPatch, lastCall, edits, calls, userSaves>>

SaveResolved ==
    /\ inFlight # <<>>
    /\ inFlight' = Tail(inFlight)
    /\ CanvasSet(inFlight[1].name, inFlight[1].content)
    /\ UNCHANGED otherThanEditor

\* updateCanvas resolves with null (a status that is not ok, a network error)
SaveFailed ==
    /\ inFlight # <<>>
    /\ inFlight' = Tail(inFlight)
    /\ UNCHANGED <<edSrc, doc, canvasName, improveVars, instructVars, sinceLLM,
                   timerVars, lastPatch, lastCall, edits, calls, userSaves>>
    /\ UNCHANGED otherThanEditor

\* The timers that are set, by the time left
Pending ==
    ({contentTimer, titleTimer} \ {NoTimer})
    \cup {tm.rem : tm \in markTimers} \cup {tm.rem : tm \in unmarkTimers}

\* The time left until a model call is let through again
UntilCallAllowed ==
    IF sinceLLM < MIN_LLM_CALL_INTERVAL THEN {MIN_LLM_CALL_INTERVAL - sinceLLM} ELSE {}

Less(r, d) == IF r = NoTimer THEN NoTimer ELSE r - d

\* Time passes, up to the next instant at which a timer is due or a model
\* call is let through again.
Elapse ==
    /\ \E d \in Pending \cup UntilCallAllowed :
        /\ d > 0
        /\ \A r \in Pending \cup UntilCallAllowed : d <= r
        /\ contentTimer' = Less(contentTimer, d)
        /\ titleTimer' = Less(titleTimer, d)
        /\ markTimers' = {[tm EXCEPT !.rem = tm.rem - d] : tm \in markTimers}
        /\ unmarkTimers' = {[tm EXCEPT !.rem = tm.rem - d] : tm \in unmarkTimers}
        /\ sinceLLM' = IF sinceLLM + d > MIN_LLM_CALL_INTERVAL
                       THEN MIN_LLM_CALL_INTERVAL ELSE sinceLLM + d
    /\ UNCHANGED <<edSrc, doc, canvasName, improveVars, instructVars, titleVal, inFlight,
                   lastPatch, lastCall, edits, calls, userSaves>>
    /\ UNCHANGED otherThanEditor

InitEditor ==
    /\ InitLedger /\ initCredits = 0 /\ InitChat /\ InitSrv /\ InitStripIdle
    /\ InitPatchIdle /\ InitPageIdle /\ InitPanelIdle /\ InitDebounceIdle
    /\ \E src \in EditorSources : InitEditorWith(src, LoadedDoc)

NextEditor ==
    \/ TypeChar \/ DeleteChar
    \/ ImproveStart \/ ImproveResolved
    \/ InstructionStart \/ InstructionResolved
    \/ MarkFire \/ UnmarkFire
    \/ ContentSaveFire \/ TitleChange \/ TitleSaveFire \/ ManualSave
    \/ SaveResolved \/ SaveFailed
    \/ Elapse

SpecEditor == InitEditor /\ [][NextEditor]_vars

(***************************************************************************)
(* The editor with several model calls, one after the other or overlapping, *)
(* and the timers of their patches; the title is left alone and no save is  *)
(* asked for by the user.                                                   *)
(***************************************************************************)
ImproveAgain == ImproveStartWithin(MaxPatches)
InstructionAgain == InstructionStartWithin(MaxPatches)

NextPatches ==
    \/ TypeChar \/ DeleteChar
    \/ ImproveAgain \/ ImproveResolved
    \/ InstructionAgain \/ InstructionResolved
    \/ MarkFire \/ UnmarkFire
    \/ ContentSaveFire \/ SaveResolved \/ SaveFailed
    \/ Elapse

SpecPatches == InitEditor /\ [][NextPatches]_vars

(***************************************************************************)
(* The latest CanvasEditor (CanvasItem.tsx from line 887 on) with its model *)
(* calls, their patches and timers and the autosave they cause; the user    *)
(* only asks for model calls.                                               *)
(***************************************************************************)
InitLatest ==
    /\ InitLedger /\ initCredits = 0 /\ InitChat /\ InitSrv /\ InitStripIdle
    /\ InitPatchIdle /\ InitPageIdle /\ InitPanelIdle /\ InitDebounceIdle
    /\ InitEditorWith("CanvasItem", LoadedDoc)

NextCalls ==
    \/ ImproveAgain \/ ImproveResolved
    \/ InstructionAgain \/ InstructionResolved
    \/ MarkFire \/ UnmarkFire
    \/ ContentSaveFire \/ SaveResolved \/ SaveFailed
    \/ Elapse

SpecCalls == InitLatest /\ [][NextCalls]_vars

InitAgent == InitLedger /\ InitChat /\ InitSrv /\ InitCanvasIdle
NextAgent ==
    \/ Send \/ TokenResolved \/ TokenMissing \/ FetchResolved \/ ReadChunk \/ ReadDone
    \/ NetworkError \/ Cancel \/ AbortCaught
    \/ SrvAdmit \/ SrvToolCall \/ SrvToolResult \/ SrvFinalAnswer \/ SrvRespond
    \/ SrvFail \/ SrvCancelled \/ SrvTrailing \/ SrvClose \/ ConnEndsEarly
SpecAgent == InitAgent /\ [][NextAgent]_vars

(***************************************************************************)
(* The read loop on one response body that has arrived in full: the body   *)
(* is a sequence of lines, and reader.read() hands it over in chunks of any *)
(* size.                                                                    *)
(***************************************************************************)
\* The lines of a body: events, a data line that is no JSON, a line that is
\* no data line, an empty line, an event with blanks around it.
StreamLines ==
    {<<DataPrefix, "S">>, <<DataPrefix, "Ta">>, <<DataPrefix, "Tb">>,
     <<DataPrefix, "Xa">>, <<DataPrefix, "C">>, <<DataPrefix, "E">>,
     <<DataPrefix, BadJson>>, <<BadJson>>, <<>>, <<Blank, DataPrefix, "Ra", Blank>>}

\* The bodies: up to MaxLines lines, the last one with or without its newline
Streams ==
    {JoinLines(ls) \o end : ls \in SeqsUpTo(StreamLines, MaxLines) \ {<<>>},
                             end \in {<<>>, <<Newline>>}}

InitStream ==
    /\ InitLedger /\ initCredits = 1 /\ InitCanvasIdle
    /\ isProcessing = TRUE
    /\ chatPc = "reading"
    /\ abortCtl = TRUE
    /\ aborted = FALSE
    /\ curReq = 1
    /\ buffer = <<>>
    /\ msgContent = ""
    /\ msgStreaming = TRUE
    /\ toolCalls = <<>>
    /\ finalResponse = ""
    /\ acted = <<>>
    /\ dropped = 0
    /\ reloads = 0
    /\ refreshes = 0
    /\ outcome = "none"
    /\ cancelAsked = FALSE
    /\ reqSent = TRUE
    /\ httpStatus = 200
    /\ srvState = "Completed"
    /\ srvSteps = 0
    /\ reserved = TRUE
    /\ refunds = 0
    /\ modelCalls = 0
    /\ trailing = 0
    /\ connOpen = TRUE
    /\ srvClosed = TRUE
    /\ wire \in Streams

NextStream == ReadChunk \/ ReadDone

SpecStream == InitStream /\ [][NextStream]_vars

(***************************************************************************)
(* One agent request on the canvas the editor shows: the tool calls of the *)
(* request change the stored canvas while the editor saves its own content. *)
(***************************************************************************)
\* The change a mutating tool makes to a document (insert-section and the
\* like): text of its own is added at the end.
AgentText == "t"
AgentMutation(content) == getJSON(Append(setContent(content), Char(AgentText, FALSE)))
HasAgentText(content) ==
    \E i \in 1..Len(setContent(content)) : setContent(content)[i].ch = AgentText

\* The request is admitted and its stream is being read; Started is on the way.
InitShared ==
    /\ profiles = {"u1"}
    /\ initCredits = 1
    /\ credits = [u \in UserIds |-> 0]
    /\ rowLock = [u \in UserIds |-> NoTxn]
    /\ txPc = [t \in Txn |-> "idle"]
    /\ txKind = [t \in Txn |-> "consume"]
    /\ txUser = [t \in Txn |-> "u1"]
    /\ txAmount = [t \in Txn |-> 1]
    /\ txCur = [t \in Txn |-> 0]
    /\ txFound = [t \in Txn |-> FALSE]
    /\ txResult = [t \in Txn |-> "none"]
    /\ txWaited = [t \in Txn |-> FALSE]
    /\ isProcessing = TRUE
    /\ chatPc = "reading"
    /\ abortCtl = TRUE
    /\ aborted = FALSE
    /\ curReq = 1
    /\ buffer = <<>>
    /\ msgContent = ""
    /\ msgStreaming = TRUE
    /\ toolCalls = <<>>
    /\ finalResponse = ""
    /\ acted = <<>>
    /\ dropped = 0
    /\ reloads = 0
    /\ refreshes = 0
    /\ outcome = "none"
    /\ cancelAsked = FALSE
    /\ reqSent = TRUE
    /\ httpStatus = 200
    /\ srvState = "Looping"
    /\ srvSteps = 0
    /\ reserved = TRUE
    /\ refunds = 0
    /\ modelCalls = 0
    /\ trailing = 0
    /\ connOpen = TRUE
    /\ srvClosed = FALSE
    /\ wire = Encode("S")
    /\ InitStripIdle /\ InitPatchIdle /\ InitPageIdle /\ InitPanelIdle /\ InitDebounceIdle
    /\ InitEditorWith("CanvasItem", LoadedDoc)

\* Tooling: a mutating tool commits its change to the stored canvas.
ToolCommit ==
    /\ srvState = "Tooling"
    /\ ~committed
    /\ stored' = [stored EXCEPT ![canvasId] = AgentMutation(@)]
    /\ committed' = TRUE
    /\ UNCHANGED <<canvasId, currentCanvas, isFetchingCanvas, hasFetchedCurrentCanvas,
                   fetching, reloadPc>>
    /\ UNCHANGED <<ledgerVars, chatVars, srvVars, stripVars, editorVars, patchVars, panelVars, debounceVars>>

\* PUT /canvas/{id} is carried out and answered: the store takes the content
\* sent; updateCanvas resolves, handleCanvasUpdate sets currentCanvas and the
\* effect on currentCanvas runs.
SaveStored ==
    /\ inFlight # <<>>
    /\ inFlight' = Tail(inFlight)
    /\ stored' = [stored EXCEPT ![inFlight[1].id] = inFlight[1].content]
    /\ currentCanvas' = inFlight[1].id
    /\ CanvasSet(inFlight[1].name, inFlight[1].content)
    /\ UNCHANGED <<canvasId, isFetchingCanvas, hasFetchedCurrentCanvas, fetching,
                   committed, reloadPc>>
    /\ UNCHANGED <<ledgerVars, chatVars, srvVars, stripVars, patchVars, panelVars, debounceVars>>

\* handleCanvasModified, called when Completed was processed: getCanvas
\* resolves with the stored canvas, which becomes currentCanvas.
CanvasReloaded ==
    /\ reloads > 0
    /\ reloadPc = "none"
    /\ reloadPc' = "done"
    /\ currentCanvas' = canvasId
    /\ CanvasSet(canvasName, stored[canvasId])
    /\ UNCHANGED <<canvasId, isFetchingCanvas, hasFetchedCurrentCanvas, fetching,
                   stored, committed, inFlight>>
    /\ UNCHANGED <<ledgerVars, chatVars, srvVars, stripVars, patchVars, panelVars, debounceVars>>

NextShared ==
    \/ TypeChar \/ ContentSaveFire \/ ManualSave \/ Elapse \/ SaveStored \/ SaveFailed
    \/ SrvToolCall \/ ToolCommit \/ SrvToolResult \/ SrvFinalAnswer \/ SrvRespond
    \/ SrvClose \/ ReadChunk \/ CanvasReloaded

SpecShared == InitShared /\ [][NextShared]_vars

(***************************************************************************)
(* The runs of handleSend of one chat panel, side by side: each call of    *)
(* handleSend is a run of its own; the runs share isProcessing and         *)
(* abortControllerRef.                                                     *)
(***************************************************************************)
\* A faulty variant of Admits: handleSend does not look at isProcessing.
AdmitsAlways(processing) == TRUE

\* if (!input.trim() || isProcessing) return;  (with an instruction typed)
Admits(processing) == ~processing

otherThanPanel ==
    <<ledgerVars, srvVars, stripVars, editorVars, patchVars, pageVars, debounceVars,
      chatPc, abortCtl, aborted, curReq, buffer, msgContent, msgStreaming, toolCalls,
      finalResponse, acted, dropped, reloads, refreshes, outcome, cancelAsked>>

\* finally { setIsProcessing(false); abortControllerRef.current = null; }
PanelFinally(r) ==
    /\ isProcessing' = FALSE
    /\ abortControllerRef' = 0
    /\ sendPc' = [sendPc EXCEPT ![r] = "done"]

\* handleSend is called with an instruction typed, up to await getAccessToken()
PanelSend ==
    /\ \E r \in 1..MaxSends :
        /\ sendPc[r] = "idle"
        /\ \A q \in 1..MaxSends : q < r => sendPc[q] # "idle"
        /\ Admits(isProcessing)
        /\ isProcessing' = TRUE
        /\ sendPc' = [sendPc EXCEPT ![r] = "token"]
    /\ UNCHANGED <<abortControllerRef, signalled>>
    /\ UNCHANGED otherThanPanel

\* getAccessToken() resolves: with a token the controller is created and the
\* POST leaves, without one 'Not authenticated' is thrown
PanelToken ==
    /\ \E r \in 1..MaxSends, token \in BOOLEAN :
        /\ sendPc[r] = "token"
        /\ IF token
           THEN /\ abortControllerRef' = r
                /\ sendPc' = [sendPc EXCEPT ![r] = "fetch"]
                /\ UNCHANGED isProcessing
           ELSE PanelFinally(r)
    /\ UNCHANGED signalled
    /\ UNCHANGED otherThanPanel

\* await fetch(...) resolves; a response that is not ok is thrown
PanelResponse ==
    /\ \E r \in 1..MaxSends, status \in {200, 402} :
        /\ sendPc[r] = "fetch"
        /\ r \notin signalled
        /\ IF ResponseOk(status)
           THEN /\ sendPc' = [sendPc EXCEPT ![r] = "reading"]
                /\ UNCHANGED <<isProcessing, abortControllerRef>>
           ELSE PanelFinally(r)
    /\ UNCHANGED signalled
    /\ UNCHANGED otherThanPanel

\* The read loop is left: a terminal event, done, or a network error
PanelEnds ==
    /\ \E r \in 1..MaxSends :
        /\ sendPc[r] = "reading"
        /\ r \notin signalled
        /\ PanelFinally(r)
    /\ UNCHANGED signalled
    /\ UNCHANGED otherThanPanel

\* handleCancel
PanelCancel ==
    /\ isProcessing
    /\ signalled' = IF abortControllerRef # 0
                     THEN signalled \cup {abortControllerRef}
                     ELSE signalled
    /\ UNCHANGED <<isProcessing, sendPc, abortControllerRef>>
    /\ UNCHANGED otherThanPanel

\* The pending fetch() or reader.read() of an aborted run rejects
PanelAbortCaught ==
    /\ \E r \in 1..MaxSends :
        /\ sendPc[r] \in {"fetch", "reading"}
        /\ r \in signalled
        /\ PanelFinally(r)
    /\ UNCHANGED signalled
    /\ UNCHANGED otherThanPanel

InitPanel == InitAgent
NextPanel ==
    PanelSend \/ PanelToken \/ PanelResponse \/ PanelEnds \/ PanelCancel \/ PanelAbortCaught
SpecPanel == InitPanel /\ [][NextPanel]_vars

(***************************************************************************)
(* The canvas page across a change of the route: the page and its editor   *)
(* stay, params.id changes, and the effects on canvasId run.               *)
(***************************************************************************)
\* The effect "reset fetch tracking": with currentCanvas cur and the route at id
ResetTracking(cur, id, tracked) ==
    IF cur # NoCanvas /\ cur # id THEN NoCanvas ELSE tracked

\* The route changes to another canvas; the effect on canvasId calls
\* loadCanvas, which returns at once while a fetch is in flight, takes the
\* canvas from the local list when it is there, and fetches it otherwise.
Navigate ==
    /\ \E id \in CanvasIds \ {canvasId}, inList \in BOOLEAN :
        /\ canvasId' = id
        /\ IF isFetchingCanvas
           THEN /\ UNCHANGED <<currentCanvas, isFetchingCanvas, fetching, editorVars>>
                /\ hasFetchedCurrentCanvas' =
                        ResetTracking(currentCanvas, id, hasFetchedCurrentCanvas)
           ELSE IF hasFetchedCurrentCanvas = id /\ currentCanvas = id
           THEN UNCHANGED <<currentCanvas, isFetchingCanvas, fetching,
                            hasFetchedCurrentCanvas, editorVars>>
           ELSE IF inList
           THEN /\ currentCanvas' = id
                /\ hasFetchedCurrentCanvas' = ResetTracking(currentCanvas, id, id)
                /\ CanvasSet(canvasName, stored[id])
                /\ UNCHANGED <<isFetchingCanvas, fetching, inFlight>>
           ELSE /\ isFetchingCanvas' = TRUE
                /\ fetching' = id
                /\ hasFetchedCurrentCanvas' =
                        ResetTracking(currentCanvas, id, hasFetchedCurrentCanvas)
                /\ UNCHANGED <<currentCanvas, editorVars>>
    /\ UNCHANGED <<stored, committed, reloadPc>>
    /\ UNCHANGED <<ledgerVars, chatVars, srvVars, stripVars, patchVars, panelVars, debounceVars>>

\* getCanvas of loadCanvas resolves with the canvas it asked for
CanvasFetched ==
    /\ fetching # NoCanvas
    /\ currentCanvas' = fetching
    /\ hasFetchedCurrentCanvas' = ResetTracking(fetching, canvasId, fetching)
    /\ isFetchingCanvas' = FALSE
    /\ fetching' = NoCanvas
    /\ CanvasSet(canvasName, stored[fetching])
    /\ UNCHANGED <<canvasId, stored, committed, reloadPc, inFlight>>
    /\ UNCHANGED <<ledgerVars, chatVars, srvVars, stripVars, patchVars, panelVars, debounceVars>>

NextPage ==
    Navigate \/ CanvasFetched \/ TypeChar \/ ManualSave \/ SaveStored \/ SaveFailed

SpecPage == InitLatest /\ [][NextPage]_vars

(***************************************************************************)
(* The debounce timers of the editor: handleAutoSave, handleTitleChange    *)
(* and the cleanup on unmount, with every timer that setTimeout has set.   *)
(***************************************************************************)
\* A faulty variant of clearTimeout: the timer stays set.
clearTimeoutNothing(tms, ref) == tms

\* if (ref.current) clearTimeout(ref.current)
clearTimeout(tms, ref) == {tm \in tms : tm.id # ref}

otherThanDebounce ==
    <<ledgerVars, chatVars, srvVars, stripVars, editorVars, patchVars, pageVars, panelVars>>

\* An editor update: onUpdate calls handleAutoSave
EditorUpdate ==
    /\ mounted
    /\ nextTimer <= MaxTimers
    /\ timers' = clearTimeout(timers, contentDebounceRef)
                    \cup {[kind |-> "content", id |-> nextTimer, rem |-> AutoSaveDelay]}
    /\ contentDebounceRef' = nextTimer
    /\ nextTimer' = nextTimer + 1
    /\ sinceUpdate' = 0
    /\ UNCHANGED <<titleDebounceRef, mounted, sinceTitle, fired>>
    /\ UNCHANGED otherThanDebounce

\* handleTitleChange(value)
TitleEdited ==
    /\ mounted
    /\ nextTimer <= MaxTimers
    /\ timers' = clearTimeout(timers, titleDebounceRef)
                    \cup {[kind |-> "title", id |-> nextTimer, rem |-> TitleSaveDelay]}
    /\ titleDebounceRef' = nextTimer
    /\ nextTimer' = nextTimer + 1
    /\ sinceTitle' = 0
    /\ UNCHANGED <<contentDebounceRef, mounted, sinceUpdate, fired>>
    /\ UNCHANGED otherThanDebounce

\* A timer is due: its callback calls saveCanvas
TimerFires ==
    /\ \E tm \in timers :
        /\ tm.rem = 0
        /\ timers' = timers \ {tm}
        /\ fired' = [kind |-> tm.kind, id |-> tm.id,
                      quiet |-> IF tm.kind = "content" THEN sinceUpdate ELSE sinceTitle,
                      mounted |-> mounted]
    /\ UNCHANGED <<contentDebounceRef, titleDebounceRef, nextTimer, mounted,
                   sinceUpdate, sinceTitle>>
    /\ UNCHANGED otherThanDebounce

\* Time passes up to the next instant at which a timer is due
TimePasses ==
    /\ \E d \in {tm.rem : tm \in timers} :
        /\ d > 0
        /\ \A tm \in timers : tm.rem >= d
        /\ timers' = {[tm EXCEPT !.rem = @ - d] : tm \in timers}
        /\ sinceUpdate' = sinceUpdate + d
        /\ sinceTitle' = sinceTitle + d
    /\ UNCHANGED <<contentDebounceRef, titleDebounceRef, nextTimer, mounted, fired>>
    /\ UNCHANGED otherThanDebounce

\* The component unmounts: the cleanup clears both debounce timers
Unmount ==
    /\ mounted
    /\ mounted' = FALSE
    /\ timers' = clearTimeout(clearTimeout(timers, contentDebounceRef), titleDebounceRef)
    /\ UNCHANGED <<contentDebounceRef, titleDebounceRef, nextTimer, sinceUpdate,
                   sinceTitle, fired>>
    /\ UNCHANGED otherThanDebounce

NextDebounce == EditorUpdate \/ TitleEdited \/ TimerFires \/ TimePasses \/ Unmount

SpecDebounce == InitAgent /\ [][NextDebounce]_vars

\* What the browser runs without anybody's doing once its input is there: the
\* continuation of a settled promise (getAccessToken, fetch, reader.read).
\* Nothing makes the endpoint produce a further event, the network fail or the
\* user press a button.
ClientRuns ==
    \/ TokenResolved \/ TokenMissing \/ FetchResolved
    \/ ReadChunk \/ ReadDone \/ AbortCaught

SpecAgentLive == SpecAgent /\ WF_vars(ClientRuns)

otherThanLedger == <<chatVars, srvVars, canvasVars>>

\* The steps of the ledger.
ReserveCall ==
    /\ \E t \in Txn, u \in UserIds, a \in UnitAmounts : LedgerCall(t, "consume", u, a)
    /\ UNCHANGED otherThanLedger
AnyCall ==
    /\ \E t \in 1..MaxAnyTxn, k \in {"consume", "refund"}, u \in UserIds, a \in AnyAmounts :
          LedgerCall(t, k, u, a)
    /\ UNCHANGED otherThanLedger
Select == (\E t \in Txn : ConsumeSelect(t)) /\ UNCHANGED otherThanLedger
Finish == (\E t \in Txn : ConsumeFinish(t)) /\ UNCHANGED otherThanLedger
Refund == (\E t \in Txn : RefundUpdate(t)) /\ UNCHANGED otherThanLedger

\* Concurrent consume_credit(user, 1) calls only: the reservations of the AI routes.
InitReserve == InitLedger /\ InitChat /\ InitSrv /\ InitCanvasIdle
NextReserve == ReserveCall \/ Select \/ Finish
SpecReserve == InitReserve /\ [][NextReserve]_vars

\* Any interleaving of consume_credit and refund_credit calls, any p_amount.
NextLedger == AnyCall \/ Select \/ Finish \/ Refund
SpecLedger == InitReserve /\ [][NextLedger]_vars

\* Any interleaving of consume_credit(user, 1) and refund_credit(user, 1) calls:
\* the reservations and refunds of the AI routes.
UnitCall ==
    /\ \E t \in Txn, k \in {"consume", "refund"}, u \in UserIds, a \in UnitAmounts :
          LedgerCall(t, k, u, a)
    /\ UNCHANGED otherThanLedger
NextUnits == UnitCall \/ Select \/ Finish \/ Refund
SpecUnits == InitReserve /\ [][NextUnits]_vars

(***************************************************************************)
(* Claims about the ledger.                                                *)
(***************************************************************************)
Succeeded(u) == {t \in Txn : txKind[t] = "consume" /\ txUser[t] = u /\ txResult[t] = "ok"}

\* C1: under every interleaving of concurrent consume_credit(user, 1) calls on a
\* profile with balance B, at most B calls succeed and credits equals B minus the
\* number of successes (in particular once every call has returned).
C1_NoOverdraft ==
    /\ Cardinality(Succeeded("u1")) <= initCredits
    /\ credits["u1"] = initCredits - Cardinality(Succeeded("u1"))

\* C1 witness: B = 1, two calls overlapped (the second was issued while the first
\* held the row), both have returned, exactly one succeeded.
C1_Witness ==
    /\ initCredits = 1
    /\ \E s, t \in Txn :
          /\ s # t /\ txUser[s] = "u1" /\ txUser[t] = "u1"
          /\ txPc[s] = "done" /\ txPc[t] = "done"
          /\ txWaited[t]
          /\ txResult[s] = "ok" /\ txResult[t] = "insufficient"
    /\ credits["u1"] = 0

\* C3: profiles.credits is never negative, whatever p_amount the calls pass.
C3_CreditsNonNegative == \A u \in profiles : credits[u] >= 0

\* C9: a ledger call that returns a failure performs no update: in the step in
\* which a call returns not_found or insufficient, no profiles row changes.
C9_FailureWritesNothing ==
    [][\A t \in Txn :
         (txResult[t] = "none" /\ txResult'[t] \in {"not_found", "insufficient"})
             => (credits' = credits /\ profiles' = profiles)]_vars

\* C9 witness: a consume_credit call has failed for want of credits and a
\* refund_credit call for want of a profile, the balance being what it was.
C9_Witness ==
    /\ \E t \in Txn : txKind[t] = "consume" /\ txResult[t] = "insufficient"
    /\ \E t \in Txn : txKind[t] = "refund" /\ txResult[t] = "not_found"
    /\ credits["u1"] = initCredits

(***************************************************************************)
(* Claims about the agent request.                                         *)
(***************************************************************************)
TerminalEvents == {"C", "E"}
Rejected == httpStatus \in {401, 402, 404}

\* C2: for every successful reservation, exactly one refund call is issued if
\* its request ends in Failed (model failure, tool-engine exception, timeout or
\* forced cancellation), none if it ends in Completed, never two or more; a
\* request without a reservation gets none.
C2_RefundExactlyOnce ==
    /\ refunds <= 1
    /\ (reserved /\ srvState = "Failed") => refunds = 1
    /\ (reserved /\ srvState = "Completed") => refunds = 0
    /\ ~reserved => refunds = 0

\* C2 witness: a reserved request forced into Failed by the caller's
\* cancellation, refunded once.
C2_Witness ==
    /\ reserved /\ srvState = "Failed" /\ refunds = 1
    /\ outcome = "cancelled"

C5_RejectedConsumesNothing ==
    /\ [](Rejected =>
            /\ ~reserved /\ refunds = 0 /\ modelCalls = 0
            /\ acted = <<>> /\ reloads = 0
            /\ (~isProcessing /\ ~aborted) => (outcome = "error" /\ ~msgStreaming))
    /\ [][(httpStatus = 0 /\ httpStatus' \in {401, 402, 404}) => credits' = credits]_vars

\* C5 witness: a request rejected with 402 at balance 0 has ended as an error.
C5_Witness ==
    /\ httpStatus = 402 /\ credits[Subject] = 0
    /\ ~isProcessing /\ outcome = "error" /\ acted = <<>>

\* C7: a cancel made while the panel is in progress and before a terminal
\* event has been processed ends the request as cancelled.
C7_CancelAlwaysAborts ==
    (cancelAsked /\ ~isProcessing) => outcome = "cancelled"

(***************************************************************************)
(* Claims about stripAiResponseMarks.                                      *)
(***************************************************************************)
\* C10, as stated: for every tree without an aiResponse mark, nodes with other
\* marks or an empty marks array included, the result serializes to the same
\* bytes as the input.
C10_NoMarkIsNoOp ==
    (stripPc # "input" /\ ~HasAiMark(tree)) => Serialize(once) = Serialize(tree)

\* C10, amended: for every tree without an aiResponse mark and without an
\* empty marks array the result serializes to the same bytes as the input; and
\* for every tree d, strip(strip(d)) = strip(d).
C10_NoOpAndIdempotent ==
    /\ (stripPc # "input" /\ ~HasAiMark(tree) /\ ~HasEmptyMarks(tree))
           => Serialize(once) = Serialize(tree)
    /\ stripPc = "twice" => Serialize(twice) = Serialize(once)

\* C10 witness: a tree with a mark other than aiResponse, no aiResponse mark
\* and no empty marks array, stripped twice.
C10_Witness ==
    /\ stripPc = "twice"
    /\ ~HasAiMark(tree) /\ ~HasEmptyMarks(tree) /\ HasOtherMark(tree)
    /\ twice = tree

(***************************************************************************)
(* Claims about the canvas editor.                                         *)
(***************************************************************************)
\* C6: every content handed to updateCanvas by a save path (content autosave,
\* title save, manual save) is free of aiResponse marks at every depth, also
\* when the save fires while a highlight is pending.
C6_SavedContentHasNoAiMark ==
    \A i \in 1..Len(inFlight) : ~HasAiMark(inFlight[i].content)

\* C8: a single-shot patch is applied at its captured range only if the
\* document's text has not changed since the range was captured.
C8_PatchOnlyOnUnchangedDocument ==
    lastPatch # "stale"

\* The marks of a node other than aiResponse, in their order
OtherMarks(marks) == SelectSeq(marks, LAMBDA mk : mk.type # AiResponse)

\* Two trees are the same but for aiResponse marks: node types, attributes,
\* text, the order of the children and every other mark agree.
RECURSIVE SameButAi(_, _)
SameButAi(a, b) ==
    /\ a.type = b.type /\ a.attrs = b.attrs /\ a.text = b.text
    /\ OtherMarks(a.marks) = OtherMarks(b.marks)
    /\ a.hasContent = b.hasContent
    /\ Len(a.content) = Len(b.content)
    /\ \A i \in 1..Len(a.content) : SameButAi(a.content[i], b.content[i])

\* C11: for every tree, the result of stripAiResponseMarks carries no
\* aiResponse mark on any node and is otherwise the same tree: node types,
\* order, text, attributes and all other marks.
C11_StripRemovesOnlyAiMarks ==
    stripPc # "input" => (~HasAiMark(once) /\ SameButAi(tree, once))

\* C11 witness: a tree with aiResponse marks and another mark on text nodes two
\* levels below a blockquote has been stripped.
C11_Witness ==
    /\ stripPc = "once"
    /\ tree.content[1].type = "blockquote"
    /\ HasAiMark(tree) /\ HasOtherMark(tree)
    /\ ~HasAiMark(once) /\ HasOtherMark(once)

\* The text of a document in which [from, to) was replaced by the payload
Replaced(d, text, from, to) ==
    TextOf(SubSeq(d, 1, from)) \o text \o TextOf(SubSeq(d, to + 1, Len(d)))

\* C12: a payload in which no markdown pattern is detected, applied to
\* [from, to), gives a document whose text from there on is the payload
\* character for character, leading and trailing whitespace included, and
\* whose text outside the range is unchanged.
C12_PlainPayloadVerbatim ==
    (patchPc = "applied" /\ ~containsMarkdown(payload))
        => TextOf(after) = Replaced(before, payload, pFrom, pTo)

\* The lines of a text that is one fenced block: an opening fence line, lines
\* that are not fences, and a closing line that is a fence and nothing else.
IsOneFencedBlock(text) ==
    LET lines == SplitLines(text)
    IN /\ Len(lines) >= 2
       /\ lines[1] # <<>> /\ lines[1][1] = Fence
       /\ \A i \in 2..Len(lines[1]) : lines[1][i] # Fence
       /\ lines[Len(lines)] = <<Fence>>
       /\ \A k \in 2..(Len(lines) - 1) : \A i \in 1..Len(lines[k]) : lines[k][i] # Fence

InnerLines(text) ==
    LET lines == SplitLines(text)
    IN JoinLines(SubSeq(lines, 2, Len(lines) - 1))

\* C17: cleanMarkdown returns the inner lines of the trimmed payload exactly
\* when the whole trimmed payload is one fenced block, and the trimmed payload
\* unchanged for every other payload.
C17_UnwrapsExactlyOneFencedBlock ==
    patchPc # "input"
        => pCleaned = IF IsOneFencedBlock(TrimWs(payload))
                      THEN InnerLines(TrimWs(payload))
                      ELSE TrimWs(payload)

\* The span of a pending highlight is non-empty and carries the mark
Highlighted(d, tm) ==
    /\ tm.from < tm.to /\ tm.to <= Len(d)
    /\ \A i \in (tm.from + 1)..tm.to : d[i].ai

\* C13: when a fade timer fires, the highlight of every other patch whose own
\* delay has not yet elapsed stays on its span.
C13_LaterHighlightOutlivesEarlierTimer ==
    [][\A tm \in unmarkTimers \cap unmarkTimers' :
          (unmarkTimers' # unmarkTimers /\ tm.rem > 0 /\ Highlighted(doc, tm))
              => Highlighted(doc', tm)]_vars

\* C14: a request whose stream stays silent does not stay in progress for
\* ever: the client ends it by itself, without a cancel.
C14_SilentStreamEndsRequest ==
    ~<>[](isProcessing /\ chatPc = "reading" /\ wire = <<>> /\ ~cancelAsked)

\* C15: once the delay of every highlight that was applied has elapsed (no
\* setMark timer and no fade timer is pending), no text of the document
\* carries the highlight, whatever was edited in between.
C15_HighlightGoneAfterItsDelay ==
    (markTimers = {} /\ unmarkTimers = {}) => \A i \in 1..Len(doc) : ~doc[i].ai

\* The characters a patch put in: the payloads are made of the letter "r",
\* which neither the loaded document nor the user's typing contains.
InsertedByPatch(c) == \E text \in Payloads : \E i \in 1..Len(text) : text[i] = c.ch

\* C16: when the deferred setMark of a patch runs, the highlight covers the
\* text that patch inserted and no other text, also when the document was
\* edited since the insertion.
C16_HighlightCoversInsertedSpan ==
    [][(markTimers' # markTimers /\ markTimers' \subseteq markTimers)
          => \A i \in 1..Len(doc') : doc'[i].ai <=> InsertedByPatch(doc'[i])]_vars

\* One of the in-progress flags goes from set to reset
FlagReset ==
    \/ isImproving /\ ~isImproving' /\ isProcessingInstruction' = isProcessingInstruction
    \/ isProcessingInstruction /\ ~isProcessingInstruction' /\ isImproving' = isImproving

\* C18: when a single-shot call fails (a status that is not 2xx, success
\* false, an exception), the step that handles it leaves the document as it
\* is, sets no highlight timer and resets the in-progress flag.
C18_FailedCallLeavesDocument ==
    [][(lastCall' # lastCall /\ lastCall' # "ok")
          => /\ doc' = doc
             /\ markTimers' = markTimers /\ unmarkTimers' = unmarkTimers
             /\ FlagReset]_vars

C18_Witness ==
    /\ lastCall = "unsuccessful" /\ calls >= 1
    /\ doc = LoadedDoc
    /\ ~isImproving /\ ~isProcessingInstruction
    /\ markTimers = {} /\ unmarkTimers = {}

ReadsOn ==
    /\ isProcessing' /\ chatPc' = "reading"
    /\ msgStreaming' /\ msgContent' # "error"
    /\ outcome' = outcome

\* The latest event acted on after the step, if the step acted on one
ActedOn == IF Len(acted') > Len(acted) THEN acted'[Len(acted')] ELSE NoEvent

\* C19, as stated: a step that acts on a ToolResult, whatever its payload,
\* leaves the request in progress; and a request whose stream is being read
\* ends only by a Completed event, an Error event or an abort.
C19_OnlyTerminalEventEnds ==
    [][/\ (ActedOn # NoEvent /\ EventKind(ActedOn) = "tool_result") => ReadsOn
       /\ (chatPc = "reading" /\ isProcessing /\ ~isProcessing')
             => outcome' \in {"completed", "error_event", "cancelled"}]_vars

\* C19, amended: a step that acts on a ToolResult, whatever its payload,
\* leaves the request in progress; of the stream's events only Completed and
\* Error end the request; it also ends by an abort, by the end of the stream
\* and by a failure of the request itself (no token, a rejected status, a
\* network error).
C19_ToolResultNeverEnds ==
    [][/\ (ActedOn # NoEvent /\ ActedOn \notin TerminalEvents) => ReadsOn
       /\ (isProcessing /\ ~isProcessing')
             => \/ ActedOn \in TerminalEvents
                   /\ outcome' \in {"completed", "error_event"}
                \/ ActedOn = NoEvent
                   /\ outcome' \in {"cancelled", "eof", "error"}]_vars

\* A result with an object payload for a tool that has no running call was
\* acted on (a call of the other tool stays running): the request goes on.
C19_Witness ==
    /\ acted # <<>> /\ acted[Len(acted)] = "Xb"
    /\ \E i \in 1..Len(toolCalls) : toolCalls[i].status = "running"
    /\ isProcessing /\ chatPc = "reading" /\ msgStreaming

\* The events of the lines of a text that are closed by a newline, in order
RECURSIVE EventsOf(_)
EventsOf(lines) ==
    IF Len(lines) <= 1 THEN <<>>
    ELSE LET ev == parseSSELine(Trim(lines[1]))
         IN (IF ev = NoEvent THEN <<>> ELSE <<ev>>) \o EventsOf(Tail(lines))

\* A sequence of events up to its first terminal event
UpToTerminal(evs) ==
    LET ends == {i \in 1..Len(evs) : evs[i] \in TerminalEvents}
    IN IF ends = {} THEN evs
       ELSE SubSeq(evs, 1, CHOOSE i \in ends : \A j \in ends : i <= j)

\* The events dispatched by the end of the stream: those already dispatched,
\* then those of the lines still to come, whatever the chunks
WillDispatch(done, rest) == UpToTerminal(done \o EventsOf(SplitLines(rest)))

\* C21: the events dispatched for a stream do not depend on the chunks it
\* arrives in: no read changes the sequence of events the whole stream gives
\* (each data line once, in order, a line cut by a chunk boundary once its
\* newline is there, other lines skipped).
C21_DispatchIndependentOfChunks ==
    [][WillDispatch(acted', buffer' \o wire') = WillDispatch(acted, buffer \o wire)]_vars

\* An event was dispatched, the start of a data line is held back in the
\* buffer, and the rest of it is still to be read.
C21_Witness ==
    /\ acted = <<"S">>
    /\ buffer = <<DataPrefix>>
    /\ wire # <<>> /\ wire[1] = "C"
    /\ chatPc = "reading"

\* A read that dispatches the one event ev
Dispatches(ev) == acted' = Append(acted, ev)

\* The running records of a tool
RunningOf(tcs, name) ==
    {i \in 1..Len(tcs) : tcs[i].name = name /\ tcs[i].status = "running"}

\* How many of the events evs[1..n] satisfy kind and are about the tool
CountOf(evs, n, kind, name) ==
    Cardinality({i \in 1..n : EventKind(evs[i]) = kind /\ EventTool(evs[i]) = name})

\* Tool calls and tool results come in pairs: each tool has as many results
\* as calls, and at no point more results than calls
InPairs(evs) ==
    \A name \in ToolNames :
        /\ CountOf(evs, Len(evs), "tool_result", name)
              = CountOf(evs, Len(evs), "tool_call", name)
        /\ \A n \in 1..Len(evs) :
              CountOf(evs, n, "tool_result", name) <= CountOf(evs, n, "tool_call", name)

Successful(kind, u) ==
    {t \in Txn : txKind[t] = kind /\ txUser[t] = u /\ txResult[t] = "ok"}

\* C23: under every interleaving of consume_credit(user, 1) and
\* refund_credit(user, 1) calls on a profile that started with balance B,
\* credits is B minus the successful consumes plus the successful refunds.
C23_LedgerConservation ==
    credits["u1"] = initCredits - Cardinality(Successful("consume", "u1"))
                                + Cardinality(Successful("refund", "u1"))

\* A refund was issued while a consume held the row; both have succeeded
\* and the balance is back at B.
C23_Witness ==
    /\ initCredits = 1
    /\ \E s, t \in Txn :
          /\ txKind[s] = "consume" /\ txKind[t] = "refund"
          /\ txUser[s] = "u1" /\ txUser[t] = "u1"
          /\ txResult[s] = "ok" /\ txResult[t] = "ok"
          /\ txWaited[t]
          /\ \A r \in Txn \ {s, t} : txPc[r] = "idle"
    /\ credits["u1"] = 1

\* C24: handling the response of a save never changes the editor's document:
\* in the step that takes a response off the saves in flight, the text in
\* the editor stays what it was (text typed since the dispatch included).
C24_SaveResponseKeepsDocument ==
    [][Len(inFlight') < Len(inFlight) => TextOf(doc') = TextOf(doc)]_vars

\* C25: a change committed by a tool call of the request is in the stored
\* canvas when the client, having processed Completed, reloads the canvas,
\* whatever saves of the editor ran meanwhile.
C25_AgentMutationSurvivesSaves ==
    [][(reloadPc = "none" /\ reloadPc' = "done" /\ committed)
          => HasAgentText(stored[canvasId])]_vars

\* C26: once a submission has finished and the panel has left the
\* in-progress state, the assistant message of the submission is not marked
\* as streaming, however the stream ended.
C26_FinishedMessageNotStreaming ==
    (curReq > 0 /\ ~isProcessing /\ chatPc = "idle") => ~msgStreaming

\* The runs of handleSend whose request is in flight
RequestsInFlight == {r \in 1..MaxSends : sendPc[r] \in {"fetch", "reading"}}

\* C27: at most one agent request is in flight per chat panel, and while one
\* is in flight abortControllerRef holds the controller of that request.
C27_OneRequestWithWorkingCancel ==
    /\ Cardinality(RequestsInFlight) <= 1
    /\ \A r \in RequestsInFlight : abortControllerRef = r

\* A first submission was cancelled and is over; the second is in flight and
\* the ref holds its controller.
C27_Witness ==
    /\ sendPc[1] = "done" /\ 1 \in signalled
    /\ sendPc[2] = "reading" /\ abortControllerRef = 2

\* C28: the editor never saves one canvas's content under another canvas's
\* id: at every save the canvas written to is the canvas whose content the
\* editor holds (currentCanvas), also while a canvas fetch is in flight.
C28_SavesUnderOwnCanvas ==
    [][Len(inFlight') > Len(inFlight)
          => inFlight'[Len(inFlight')].id = currentCanvas]_vars

\* C29: for each agent request the canvas reload and the credit refresh are
\* each invoked at most once, and only by processing a Completed event; a
\* request that ends by an Error event, an admission failure, an abort, a
\* network error or the end of the stream invokes neither.
C29_ReloadOnlyOnCompleted ==
    /\ reloads <= 1 /\ refreshes <= 1
    /\ reloads = Cardinality({i \in 1..Len(acted) : acted[i] = "C"})
    /\ refreshes = reloads
    /\ outcome \in {"error_event", "error", "cancelled", "eof"} =>
           (reloads = 0 /\ refreshes = 0)

\* The second request of the panel has processed Completed with another
\* terminal event behind it in the chunk: one reload, one refresh.
C29_Witness ==
    /\ curReq = 2
    /\ outcome = "completed" /\ ~isProcessing
    /\ dropped > 0
    /\ reloads = 1 /\ refreshes = 1

\* The timers of a kind that are set
TimersOf(kind) == {tm \in timers : tm.kind = kind}

\* C30: at most one content timer and at most one title timer are set at a
\* time; a content save fires only 5 s after the last editor update and a
\* title save only 2 s after the last title change, in a mounted editor;
\* once the editor is unmounted no timer is left to fire.
C30_OneDebounceTimerEach ==
    /\ Cardinality(TimersOf("content")) <= 1
    /\ Cardinality(TimersOf("title")) <= 1
    /\ fired.kind = "content" => (fired.quiet >= AutoSaveDelay /\ fired.mounted)
    /\ fired.kind = "title" => (fired.quiet >= TitleSaveDelay /\ fired.mounted)
    /\ ~mounted => timers = {}

\* Two editor updates less than 5 s apart: the timer of the second has
\* fired, that of the first never did; then the editor was unmounted with
\* a title timer set.
C30_Witness ==
    /\ fired.kind = "content" /\ fired.id = contentDebounceRef
    /\ fired.id > 1
    /\ titleDebounceRef > fired.id
    /\ ~mounted

====
